---- MODULE Spec2Model ----
(***************************************************************************)
(* Model of the XML extraction + data-merge pipeline of the Enduraw        *)
(* Testing Tool: TCPXmlParser (xml_parser.py) and DataTransformer          *)
(* (src/core/data_transformer.py).                                         *)
(* The batch exports that drive them (main_session.py, main.py,            *)
(* utils/json_exporter.py) are modelled by their loops.                    *)
(*                                                                         *)
(* Python values are tagged records: None, numbers, strings.  In the       *)
(* transformer a number is kept as an integer count of 1/Scale (two        *)
(* decimals, the precision round(x, 2) keeps).  In the parser a text is a  *)
(* sequence of characters, an int is [ty, v] and a float an exact decimal  *)
(* [ty, neg, inf, m, e], so that int(), float() and str() are computed as  *)
(* Python computes them.  A Python dict is a function whose DOMAIN is its  *)
(* key set; a Python list is a sequence.                                   *)
(***************************************************************************)
EXTENDS Integers, Sequences, FiniteSets, TLC

VARIABLES
    xml_data,       \* the parsed document handed to DataTransformer.transform
    manual_input,   \* the operator's manual input handed to transform
    result,         \* NoResult, or Returned(what transform returned)
    agg_out,        \* NoResult, or Returned(what _aggregate_by_interval returned)
    cell,           \* a raw cell text handed to _convert_value (characters)
    converted,      \* NoResult, or Returned(what _convert_value returned)
    filename,       \* a file name handed to _parse_filename (characters)
    filename_data,  \* NoResult, or Returned(what _parse_filename returned)
    workbook,       \* the spreadsheet-XML file handed to parse_file
    parsed,         \* NoResult, Returned(what parse_file returned) or Raised(error)
    parser,         \* the TCPXmlParser instance: its attributes between calls
    batch,          \* the records handed to a batch export, and what the export counted
    scan,           \* an extractor's walk over the row grid: its loop and scan index
    session         \* the session's profile files, XML files and matches

transformer_vars == <<xml_data, manual_input, result, agg_out>>
coercion_vars == <<cell, converted>>
filename_vars == <<filename, filename_data>>
parser_vars == <<workbook, parsed, parser>>
batch_vars == <<batch>>
scan_vars == <<scan>>
session_vars == <<session>>
vars == <<transformer_vars, coercion_vars, filename_vars, parser_vars, batch_vars,
          scan_vars, session_vars>>

\* the variables an operation of one component leaves alone
NotTransformer == <<coercion_vars, filename_vars, parser_vars, batch_vars, scan_vars, session_vars>>
NotCoercion == <<transformer_vars, filename_vars, parser_vars, batch_vars, scan_vars, session_vars>>
NotFilename == <<transformer_vars, coercion_vars, parser_vars, batch_vars, scan_vars, session_vars>>
NotParser == <<transformer_vars, coercion_vars, filename_vars, batch_vars, scan_vars, session_vars>>
NotBatch == <<transformer_vars, coercion_vars, filename_vars, parser_vars, scan_vars, session_vars>>
NotScan == <<transformer_vars, coercion_vars, filename_vars, parsed, parser, batch_vars, session_vars>>
NotSession == <<transformer_vars, coercion_vars, filename_vars, parser_vars, batch_vars, scan_vars>>

----------------------------------------------------------------------------
(* Python values *)

Scale == 100

None == [ty |-> "None"]
NoResult == [ty |-> "NoResult"]
Returned(v) == [ty |-> "returned", v |-> v]
Raised(e) == [ty |-> "raised", error |-> e]
Num(c) == [ty |-> "num", c |-> c]
Str(s) == [ty |-> "str", s |-> s]
Bool(b) == [ty |-> "bool", b |-> b]
Sec(n) == Num(n * Scale)

IsNum(x) == x.ty = "num"

\* bool(x) of a value that is None or a number
Truthy(x) == IsNum(x) /\ x.c # 0

EmptyDict == <<>>

\* d.get(k, default)
Get(d, k, default) == IF k \in DOMAIN d THEN d[k] ELSE default

\* int(x) of the rational n/d, d > 0: truncation toward zero
Trunc(n, d) == IF n >= 0 THEN n \div d ELSE -((-n) \div d)

\* round(n/d) to the nearest integer, ties to even (Python's round), d > 0, n >= 0
RoundHalfEven(n, d) ==
    LET q == n \div d
        r == n % d
    IN  IF 2 * r < d THEN q
        ELSE IF 2 * r > d THEN q + 1
        ELSE IF q % 2 = 0 THEN q ELSE q + 1

RECURSIVE SumSeq(_)
SumSeq(s) == IF s = <<>> THEN 0 ELSE Head(s) + SumSeq(Tail(s))

SetMin(S) == CHOOSE x \in S : \A y \in S : x <= y
SetMax(S) == CHOOSE x \in S : \A y \in S : x >= y

----------------------------------------------------------------------------
(* config.py *)

GRAPH_INTERVAL_SECONDS == 15

----------------------------------------------------------------------------
(* DataTransformer._aggregate_by_interval *)

\* keys of a measurement record that are not accumulated
SkippedKeys == {"t", "t_seconds", "Phase", "Marqueur"}

\* a bucket closed on the right: a sample at exactly k * interval_sec (k >= 1)
\* falls in the bucket labelled k * interval_sec
IntervalOfRightClosed(t, interval_sec) ==
    IF t = 0 THEN interval_sec
    ELSE ((t + interval_sec * Scale - 1) \div (interval_sec * Scale)) * interval_sec

\* the bucket labelled by its left end
IntervalOfLeftLabel(t, interval_sec) ==
    (t \div (interval_sec * Scale)) * interval_sec

\* the label one bucket late when the sample is on a boundary, right otherwise
IntervalOfCeil(t, interval_sec) ==
    ((t + interval_sec * Scale - 1) \div (interval_sec * Scale)) * interval_sec
        + (IF t % (interval_sec * Scale) = 0 THEN 2 * interval_sec ELSE 0)

\* interval = int(t // interval_sec) * interval_sec + interval_sec
\* (t is in 1/Scale seconds, the label is in whole seconds)
IntervalOf(t, interval_sec) ==
    (t \div (interval_sec * Scale)) * interval_sec + interval_sec

\* avg_values of one finished bucket: the label plus, per key that has at
\* least one non-None value, round(sum(valid) / len(valid), 2)
AvgValues(current_interval, current_values) ==
    LET NotNone(v) == v # None
        valid(k) == SelectSeq(current_values[k], NotNone)
        keys == {k \in DOMAIN current_values : valid(k) # <<>>}
        cs(k) == [i \in 1..Len(valid(k)) |-> valid(k)[i].c]
    IN  [k \in keys \cup {"t_seconds"} |->
            IF k = "t_seconds" THEN Sec(current_interval)
            ELSE Num(RoundHalfEven(SumSeq(cs(k)), Len(valid(k))))]

\* the "accumulate values" part of the loop body
Accumulate(current_values, m) ==
    LET keys == DOMAIN m \ SkippedKeys
    IN  [k \in DOMAIN current_values \cup keys |->
            IF k \in keys
            THEN Get(current_values, k, <<>>) \o <<m[k]>>
            ELSE current_values[k]]

RECURSIVE AggLoop(_, _, _, _, _, _)
AggLoop(measurements, interval_sec, aggregated, current_interval, current_values, count) ==
    IF measurements = <<>>
    THEN \* don't forget last interval
         IF count > 0
         THEN Append(aggregated, AvgValues(current_interval, current_values))
         ELSE aggregated
    ELSE LET m == Head(measurements)
             t == Get(m, "t_seconds", Num(0)).c
             interval == IntervalOf(t, interval_sec)
         IN  IF interval # current_interval
             THEN AggLoop(Tail(measurements), interval_sec,
                          IF count > 0
                          THEN Append(aggregated, AvgValues(current_interval, current_values))
                          ELSE aggregated,
                          interval, Accumulate(EmptyDict, m), 1)
             ELSE AggLoop(Tail(measurements), interval_sec, aggregated,
                          current_interval, Accumulate(current_values, m), count + 1)

aggregate_by_interval(measurements, interval_sec) ==
    IF measurements = <<>> THEN <<>>
    ELSE AggLoop(measurements, interval_sec, <<>>, 0, EmptyDict, 0)

----------------------------------------------------------------------------
(* DataTransformer._find_zone_by_fc, _build_zones_seuils *)

\* variant: the bounds fc_min and fc_max are excluded
MatchingIdxStrict(aggregated, fc_min, fc_max) ==
    {i \in 1..Len(aggregated) :
        LET fc == Get(aggregated[i], "FC", None)
        IN  Truthy(fc) /\ fc_min * Scale < fc.c /\ fc.c < fc_max * Scale}

\* indices of the aggregated records whose FC is truthy and inside [fc_min, fc_max]
\* (fc_min, fc_max: whole bpm, as int() leaves them)
MatchingIdx(aggregated, fc_min, fc_max) ==
    {i \in 1..Len(aggregated) :
        LET fc == Get(aggregated[i], "FC", None)
        IN  Truthy(fc) /\ fc_min * Scale <= fc.c /\ fc.c <= fc_max * Scale}

\* returns the ZoneSeuil as to_dict renders it, or None
find_zone_by_fc(aggregated, fc_target, name, color) ==
    LET fc_min == Trunc(fc_target.c * 98, 100 * Scale)
        fc_max == Trunc(fc_target.c * 102, 100 * Scale)
        matching_times == {aggregated[i]["t_seconds"].c :
                              i \in MatchingIdx(aggregated, fc_min, fc_max)}
    IN  IF matching_times # {}
        THEN [nom |-> name, couleur |-> color,
              fc_min |-> Num(fc_min * Scale), fc_max |-> Num(fc_max * Scale),
              temps_debut_sec |-> Num(SetMin(matching_times)),
              temps_fin_sec |-> Num(SetMax(matching_times)),
              label |-> <<name, fc_min, fc_max>>]
        ELSE None

\* the zone of one ventilatory threshold, as a list of zero or one zone
ThresholdZone(aggregated, seuils, key, color) ==
    LET sv == Get(seuils, key, EmptyDict)
        fc == Get(sv, "fc", None)
    IN  IF Truthy(fc)
        THEN LET zone == find_zone_by_fc(aggregated, fc, key, color)
             IN  IF zone # None THEN <<zone>> ELSE <<>>
        ELSE <<>>

\* variant: the zone is put at the last record that reaches 98% of fc_max
VO2maxZoneAtLast(aggregated, seuils) ==
    LET vo2max == Get(seuils, "VO2_max", EmptyDict)
        fc_max == Get(vo2max, "fc_max", None)
        hits == {i \in 1..Len(aggregated) :
                    LET fc == Get(aggregated[i], "FC", None)
                    IN  Truthy(fc) /\ fc.c * 100 >= fc_max.c * 98}
    IN  IF Truthy(fc_max) /\ hits # {}
        THEN <<[nom |-> "VO2_max", couleur |-> "red", fc |-> fc_max,
                temps_sec |-> aggregated[SetMax(hits)]["t_seconds"],
                label |-> <<"VO2Max", fc_max.c>>]>>
        ELSE <<>>

\* the VO2max zone: the first aggregated record whose FC reaches 98% of fc_max
VO2maxZone(aggregated, seuils) ==
    LET vo2max == Get(seuils, "VO2_max", EmptyDict)
        fc_max == Get(vo2max, "fc_max", None)
        hits == {i \in 1..Len(aggregated) :
                    LET fc == Get(aggregated[i], "FC", None)
                    IN  Truthy(fc) /\ fc.c * 100 >= fc_max.c * 98}
    IN  IF Truthy(fc_max) /\ hits # {}
        THEN <<[nom |-> "VO2_max", couleur |-> "red", fc |-> fc_max,
                temps_sec |-> aggregated[SetMin(hits)]["t_seconds"],
                label |-> <<"VO2Max", fc_max.c>>]>>
        ELSE <<>>

build_zones_seuils(aggregated, seuils) ==
    ThresholdZone(aggregated, seuils, "SV1", "orange")
        \o ThresholdZone(aggregated, seuils, "SV2", "purple")
        \o VO2maxZone(aggregated, seuils)

----------------------------------------------------------------------------
(* DataTransformer._build_graphiques *)

\* variant: the curve is drawn whether or not a record has the field
CurveOfEveryField(aggregated, fld, nom) ==
    LET values == [i \in 1..Len(aggregated) |-> Get(aggregated[i], fld, None)]
        time_values == [i \in 1..Len(aggregated) |-> aggregated[i]["t_seconds"]]
    IN  <<[nom |-> nom, type |-> "lines", temps_secondes |-> time_values,
           valeurs |-> [i \in 1..Len(values) |->
                           IF values[i] # None THEN values[i] ELSE Num(0)]]>>

\* one curve of a graph, as a list of zero or one curve: present when some
\* aggregated record has the field; a record without it is drawn as 0
Curve(aggregated, fld, nom) ==
    LET values == [i \in 1..Len(aggregated) |-> Get(aggregated[i], fld, None)]
        time_values == [i \in 1..Len(aggregated) |-> aggregated[i]["t_seconds"]]
    IN  IF \E i \in 1..Len(values) : values[i] # None
        THEN <<[nom |-> nom, type |-> "lines", temps_secondes |-> time_values,
                valeurs |-> [i \in 1..Len(values) |->
                                IF values[i] # None THEN values[i] ELSE Num(0)]]>>
        ELSE <<>>

build_graphiques(measurements, seuils) ==
    IF measurements = <<>> THEN EmptyDict
    ELSE LET aggregated == aggregate_by_interval(measurements, GRAPH_INTERVAL_SECONDS)
         IN  [graphique_1 |-> [titre |-> "Heart Rate, V'O2 and V'CO2 Evolution",
                               courbes |-> Curve(aggregated, "FC", "FC (bpm)")
                                   \o Curve(aggregated, "V'O2", "V'O2 (L/min)")],
              graphique_2 |-> [titre |-> "V'E, RER and Breathing Frequency Evolution",
                               courbes |-> Curve(aggregated, "V'E", "V'E (L/min)")
                                   \o Curve(aggregated, "BF", "BF (/min)")
                                   \o Curve(aggregated, "RER", "RER")],
              zones_seuils |-> build_zones_seuils(aggregated, seuils)]

----------------------------------------------------------------------------
(* DataTransformer._safe_float, _build_seuils; models.Seuil, VO2Max, VMA *)

\* None stays None, a number is itself; text float() rejects gives None
safe_float(value) == IF IsNum(value) THEN value ELSE None

\* int((allure / max_speed) * 100) when both are truthy, else the Seuil default
PourcentageVma(allure, max_speed) ==
    IF Truthy(allure) /\ Truthy(max_speed)
    THEN Num(Trunc(allure.c * 100, max_speed.c) * Scale)
    ELSE None

\* a threshold written without the keys whose value is None
SeuilDictWithoutNulls(sv_data, max_speed) ==
    LET full == [vo2 |-> None,
                 allure |-> Get(sv_data, "pace_km_h", None),
                 fc |-> Get(sv_data, "hr_bpm", None),
                 pourcentage_vma |->
                     PourcentageVma(Get(sv_data, "pace_km_h", None), max_speed)]
    IN  [k \in {x \in DOMAIN full : full[x] # None} |-> full[k]]

\* Seuil.to_dict of one threshold
SeuilDict(sv_data, max_speed) ==
    [vo2 |-> None,
     allure |-> Get(sv_data, "pace_km_h", None),
     fc |-> Get(sv_data, "hr_bpm", None),
     pourcentage_vma |-> PourcentageVma(Get(sv_data, "pace_km_h", None), max_speed)]

build_seuils(summary_data, manual) ==
    LET stress_results == Get(manual, "stress_test_results", EmptyDict)
        thresholds == Get(stress_results, "thresholds", EmptyDict)
        sv1_data == Get(thresholds, "sv1", EmptyDict)
        sv2_data == Get(thresholds, "sv2", EmptyDict)
        v_row == Get(summary_data, "v", EmptyDict)
        max_speed == safe_float(Get(v_row, "Valeurs Maximales Absolues", None))
    IN  [SV1 |-> SeuilDict(sv1_data, max_speed),
         SV2 |-> SeuilDict(sv2_data, max_speed),
         VO2_max |-> [valeur |-> Get(stress_results, "measured_vo2max", None),
                      fc_max |-> Get(stress_results, "max_hr", None)],
         VMA |-> [valeur |-> max_speed]]

----------------------------------------------------------------------------
(* DataTransformer._build_test_lactate *)

\* an entry is kept when both fields are truthy (a 0 is dropped)
CompleteEntryTruthy(entry) ==
    Truthy(Get(entry, "speed", None)) /\ Truthy(Get(entry, "lactate_mmol_l", None))

\* the entries that have both speed and lactate_mmol_l, in input order
CompleteEntry(entry) ==
    Get(entry, "speed", None) # None /\ Get(entry, "lactate_mmol_l", None) # None

build_test_lactate(manual) ==
    LET lactate_profile ==
            Get(Get(manual, "stress_test_results", EmptyDict), "lactate_profile", <<>>)
        kept == SelectSeq(lactate_profile, CompleteEntry)
        mesures == [i \in 1..Len(kept) |->
                       [vitesse |-> kept[i]["speed"],
                        lactate |-> kept[i]["lactate_mmol_l"]]]
    IN  [actif |-> Len(mesures) > 0, mesures |-> mesures]

----------------------------------------------------------------------------
(* Python text and number conversions used by TCPXmlParser._convert_value.   *)
(* A str is a sequence of one-character strings.  An int is [ty, v]; a float *)
(* is a sign and a decimal m * 10^e with m free of trailing zeros (exact for *)
(* the short literals of the model), or an infinity.  Not modelled: the      *)
(* literals inf/nan/infinity, digit grouping with "_", and literals so small *)
(* that the double underflows (17 characters of the alphabet at least).      *)

DigitChars == {"0", "1", "2", "3", "4", "5", "6", "7", "8", "9"}

DigitVal(c) ==
    CASE c = "0" -> 0 [] c = "1" -> 1 [] c = "2" -> 2 [] c = "3" -> 3 [] c = "4" -> 4
      [] c = "5" -> 5 [] c = "6" -> 6 [] c = "7" -> 7 [] c = "8" -> 8 [] c = "9" -> 9

DigitChar(d) == <<"0", "1", "2", "3", "4", "5", "6", "7", "8", "9">>[d + 1]

\* c in s
HasChar(s, c) == \E i \in 1..Len(s) : s[i] = c

\* s.replace(a, b) for single characters
ReplaceChar(s, a, b) == [i \in 1..Len(s) |-> IF s[i] = a THEN b ELSE s[i]]

\* s.replace(a, '')
RemoveChar(s, a) ==
    LET NotA(c) == c # a
    IN  SelectSeq(s, NotA)

Unsigned(s) == IF s # <<>> /\ s[1] \in {"+", "-"} THEN Tail(s) ELSE s
IsNegative(s) == s # <<>> /\ s[1] = "-"
AllDigits(s) == s # <<>> /\ \A i \in 1..Len(s) : s[i] \in DigitChars

RECURSIVE NatOf(_)
NatOf(s) ==
    IF s = <<>> THEN 0
    ELSE NatOf(SubSeq(s, 1, Len(s) - 1)) * 10 + DigitVal(s[Len(s)])

RECURSIVE DigitsOf(_)
DigitsOf(n) == IF n < 10 THEN <<DigitChar(n)>> ELSE DigitsOf(n \div 10) \o <<DigitChar(n % 10)>>

RECURSIVE Zeros(_)
Zeros(n) == IF n <= 0 THEN <<>> ELSE <<"0">> \o Zeros(n - 1)

RECURSIVE Pow10(_)
Pow10(n) == IF n <= 0 THEN 1 ELSE 10 * Pow10(n - 1)

WhitespaceChars == {" ", "\t", "\n", "\r"}

\* s.strip()
RECURSIVE Strip(_)
Strip(s) ==
    IF s = <<>> THEN s
    ELSE IF s[1] \in WhitespaceChars THEN Strip(Tail(s))
    ELSE IF s[Len(s)] \in WhitespaceChars THEN Strip(SubSeq(s, 1, Len(s) - 1))
    ELSE s

\* int(s) accepts s: surrounding whitespace, an optional sign and at least one digit
IsIntText(s) == AllDigits(Unsigned(Strip(s)))

PyInt(s) ==
    LET t == Strip(s)
    IN  [ty |-> "int", v |-> IF IsNegative(t) THEN -NatOf(Unsigned(t)) ELSE NatOf(Unsigned(t))]

\* the parts of a float literal: mantissa, then the exponent after the first e/E
ExpPos(s) == {i \in 1..Len(s) : s[i] \in {"e", "E"}}
MantissaPart(s) == IF ExpPos(s) = {} THEN s ELSE SubSeq(s, 1, SetMin(ExpPos(s)) - 1)
ExponentPart(s) == IF ExpPos(s) = {} THEN <<>> ELSE SubSeq(s, SetMin(ExpPos(s)) + 1, Len(s))
DotPos(m) == {i \in 1..Len(m) : m[i] = "."}

\* digits with at most one point and at least one digit
IsMantissa(m) ==
    /\ \A i \in 1..Len(m) : m[i] \in DigitChars \cup {"."}
    /\ Cardinality(DotPos(m)) <= 1
    /\ \E i \in 1..Len(m) : m[i] \in DigitChars

\* float(s) accepts s
IsFloatText(s) ==
    LET u == Unsigned(Strip(s))
    IN  /\ IsMantissa(MantissaPart(u))
        /\ ExpPos(u) # {} => IsIntText(ExponentPart(u))

RECURSIVE StripZeros(_, _)
StripZeros(m, e) ==
    IF m = 0 THEN <<0, 0>>
    ELSE IF m % 10 = 0 THEN StripZeros(m \div 10, e + 1)
    ELSE <<m, e>>

\* the double nearest to m * 10^e: the decimal itself, or an infinity past the
\* largest double 1.7976931348623157e308 (m has at most 6 digits)
MakeFloat(neg, m, e) ==
    LET n == StripZeros(m, e)
        nd == Len(DigitsOf(n[1]))
        decpt == nd + n[2]
    IN  IF n[1] # 0 /\ (decpt > 309 \/ (decpt = 309 /\ n[1] * Pow10(6 - nd) > 179769))
        THEN [ty |-> "float", neg |-> neg, inf |-> TRUE, m |-> 0, e |-> 0]
        ELSE [ty |-> "float", neg |-> neg, inf |-> FALSE, m |-> n[1], e |-> n[2]]

PyFloat(s) ==
    LET t == Strip(s)
        u == Unsigned(t)
        mant == MantissaPart(u)
        frac == IF DotPos(mant) = {} THEN 0 ELSE Len(mant) - SetMin(DotPos(mant))
        x == IF ExpPos(u) = {} THEN 0 ELSE PyInt(ExponentPart(u)).v
    IN  MakeFloat(IsNegative(t), NatOf(RemoveChar(mant, ".")), x - frac)

\* str(n) of an int
PyStrInt(n) == IF n < 0 THEN <<"-">> \o DigitsOf(-n) ELSE DigitsOf(n)

\* str(x) of a float: repr's shortest digits, in exponent form when the
\* decimal point position is above 16 or below -3
PyStrFloat(x) ==
    LET sign == IF x.neg THEN <<"-">> ELSE <<>>
        digits == DigitsOf(x.m)
        nd == Len(digits)
        decpt == nd + x.e
        ex == decpt - 1
        exdigits == DigitsOf(IF ex < 0 THEN -ex ELSE ex)
    IN  sign \o
        (IF x.inf THEN <<"i", "n", "f">>
         ELSE IF x.m = 0 THEN <<"0", ".", "0">>
         ELSE IF decpt > 16 \/ decpt < -3
         THEN <<digits[1]>>
                 \o (IF nd > 1 THEN <<".">> \o SubSeq(digits, 2, nd) ELSE <<>>)
                 \o <<"e", IF ex < 0 THEN "-" ELSE "+">>
                 \o (IF Len(exdigits) < 2 THEN <<"0">> ELSE <<>>) \o exdigits
         ELSE IF decpt <= 0 THEN <<"0", ".">> \o Zeros(-decpt) \o digits
         ELSE IF decpt < nd
         THEN SubSeq(digits, 1, decpt) \o <<".">> \o SubSeq(digits, decpt + 1, nd)
         ELSE digits \o Zeros(decpt - nd) \o <<".", "0">>)

\* str(x) of what _convert_value returned as a number
PyStr(x) == IF x.ty = "int" THEN PyStrInt(x.v) ELSE PyStrFloat(x)

----------------------------------------------------------------------------
(* TCPXmlParser._convert_value *)

\* value.replace(',', '.').replace(' ', '')
CleanValue(value) == RemoveChar(ReplaceChar(value, ",", "."), " ")

\* float() is tried only on a cleaned text with a point, int() only without
convert_value(value) ==
    IF value = <<>> \/ value = <<"-">> THEN None
    ELSE LET value_clean == CleanValue(value)
         IN  IF HasChar(value_clean, ".")
             THEN IF IsFloatText(value_clean) THEN PyFloat(value_clean) ELSE Str(value)
             ELSE IF IsIntText(value_clean) THEN PyInt(value_clean) ELSE Str(value)

----------------------------------------------------------------------------
(* TCPXmlParser._parse_filename: re.match of the pattern                     *)
(*   TCP__([A-Z]+)_([A-Za-zÀ-ÿ]+)_(\d{4})\.(\d{2})\.(\d{2})_(\d{2})\.(\d{2})\.(\d{2})_\.xml *)
(* against the start of the file name.  \d is modelled on the ASCII digits.  *)

UpperChars ==
    {"A", "B", "C", "D", "E", "F", "G", "H", "I", "J", "K", "L", "M", "N", "O", "P",
    "Q", "R", "S", "T", "U", "V", "W", "X", "Y", "Z"}

LowerChars ==
    {"a", "b", "c", "d", "e", "f", "g", "h", "i", "j", "k", "l", "m", "n", "o", "p",
    "q", "r", "s", "t", "u", "v", "w", "x", "y", "z"}

\* the range À-ÿ (U+00C0 to U+00FF)
LatinChars ==
    {"À", "Á", "Â", "Ã", "Ä", "Å", "Æ", "Ç", "È", "É", "Ê", "Ë", "Ì", "Í", "Î", "Ï",
    "Ð", "Ñ", "Ò", "Ó", "Ô", "Õ", "Ö", "×", "Ø", "Ù", "Ú", "Û", "Ü", "Ý", "Þ", "ß",
    "à", "á", "â", "ã", "ä", "å", "æ", "ç", "è", "é", "ê", "ë", "ì", "í", "î", "ï",
    "ð", "ñ", "ò", "ó", "ô", "õ", "ö", "÷", "ø", "ù", "ú", "û", "ü", "ý", "þ", "ÿ"}

Lit(chars) == [kind |-> "lit", chars |-> chars, cls |-> {}, n |-> 0]
Plus(cls) == [kind |-> "plus", chars |-> <<>>, cls |-> cls, n |-> 0]
Rep(cls, n) == [kind |-> "rep", chars |-> <<>>, cls |-> cls, n |-> n]

\* the elements of the pattern in order; every Plus and Rep is a group
pattern ==
    << Lit(<<"T", "C", "P", "_", "_">>), Plus(UpperChars), Lit(<<"_">>),
       Plus(UpperChars \cup LowerChars \cup LatinChars), Lit(<<"_">>),
       Rep(DigitChars, 4), Lit(<<".">>), Rep(DigitChars, 2), Lit(<<".">>), Rep(DigitChars, 2),
       Lit(<<"_">>),
       Rep(DigitChars, 2), Lit(<<".">>), Rep(DigitChars, 2), Lit(<<".">>), Rep(DigitChars, 2),
       Lit(<<"_", ".", "x", "m", "l">>) >>

\* length of the longest run of characters of cls in s from position i
RECURSIVE RunLen(_, _, _)
RunLen(s, i, cls) ==
    IF i <= Len(s) /\ s[i] \in cls THEN 1 + RunLen(s, i + 1, cls) ELSE 0

\* number of characters the element takes at position i of s, -1 when it
\* cannot match there.  A greedy run is the only way for a Plus to match: the
\* literal that follows it starts with "_", which is in neither class.
Consumed(s, i, el) ==
    CASE el.kind = "lit" ->
           IF i + Len(el.chars) - 1 <= Len(s) /\ SubSeq(s, i, i + Len(el.chars) - 1) = el.chars
           THEN Len(el.chars) ELSE -1
      [] el.kind = "plus" -> IF RunLen(s, i, el.cls) >= 1 THEN RunLen(s, i, el.cls) ELSE -1
      [] el.kind = "rep" -> IF RunLen(s, i, el.cls) >= el.n THEN el.n ELSE -1

\* match of the elements from the k-th on at position i of s
RECURSIVE MatchFrom(_, _, _, _)
MatchFrom(s, i, k, groups) ==
    IF k > Len(pattern) THEN [matched |-> TRUE, groups |-> groups, end |-> i]
    ELSE LET el == pattern[k]
             n == Consumed(s, i, el)
         IN  IF n < 0 THEN [matched |-> FALSE, groups |-> <<>>, end |-> i]
             ELSE MatchFrom(s, i + n, k + 1,
                            IF el.kind = "lit" THEN groups
                            ELSE Append(groups, SubSeq(s, i, i + n - 1)))

\* re.match(pattern, filename): anchored at the start, not at the end
re_match(s) == MatchFrom(s, 1, 1, <<>>)

parse_filename(name) ==
    LET match == re_match(name)
        g == match.groups
        date == g[3] \o <<"-">> \o g[4] \o <<"-">> \o g[5]
        time == g[6] \o <<":">> \o g[7] \o <<":">> \o g[8]
    IN  IF match.matched
        THEN [last_name |-> g[1], first_name |-> g[2], date |-> date, time |-> time,
              datetime |-> date \o <<"T">> \o time]
        ELSE [last_name |-> <<>>, first_name |-> <<>>, date |-> <<>>, time |-> <<>>,
              datetime |-> <<>>]

----------------------------------------------------------------------------
(* config.py: section headers, as texts *)

SECTION_PATIENT_DATA == <<"D", "o", "n", "n", "é", "e", "s", " ", "d", "u", " ", "p", "a", "t", "i", "e", "n", "t">>
SECTION_ADMIN_DATA == <<"D", "o", "n", "n", "é", "e", "s", " ", "a", "d", "m", "i", "n", "i", "s", "t", "r", "a", "t", "i", "v", "e", "s">>
SECTION_BIO_DATA ==
    <<"D", "o", "n", "n", "é", "e", "s", " ", "d", "e", " ", "b", "a", "s", "e", " ", "B", "i", "o", "l", "o", "g", "i", "q", "u", "e", "s", " ", "e", "t", " ", "M", "é", "d", "i", "c", "a", "l", "e", "s">>
SECTION_TEST_DATA == <<"D", "o", "n", "n", "é", "e", "s", " ", "t", "e", "s", "t">>
SECTION_SUMMARY_TABLE == <<"T", "a", "b", "l", "e", "a", "u", " ", "R", "é", "s", "u", "m", "é">>
SECTION_MEASUREMENT_DATA == <<"M", "e", "a", "s", "u", "r", "e", "m", "e", "n", "t", " ", "D", "a", "t", "a">>

----------------------------------------------------------------------------
(* TCPXmlParser: the row grid.  A row is a sequence of Cell elements, a cell *)
(* is [has_data, text]: whether it holds a Data element, and that element's  *)
(* text.  Row indices are the code's, counted from 0.                        *)

\* sub in s
Contains(sub, s) ==
    \E i \in 1..(Len(s) - Len(sub) + 1) : SubSeq(s, i, i + Len(sub) - 1) = sub

get_cell_value(c) == IF c.has_data /\ c.text # <<>> THEN Strip(c.text) ELSE <<>>

get_row_cells(row) == [j \in 1..Len(row) |-> get_cell_value(row[j])]

\* the cell texts of rows[i]
RowCells(rows, i) == get_row_cells(rows[i + 1])

\* all(c == "" for c in cells)
AllEmpty(cells) == \A j \in 1..Len(cells) : cells[j] = <<>>

\* result[key] = value
DictSet(d, key, value) ==
    [k \in DOMAIN d \cup {key} |-> IF k = key THEN value ELSE d[k]]

\* variant: a section that is not found is taken to start at the first row
find_section_start_first_row(rows, section_name) ==
    LET found == {i \in 0..(Len(rows) - 1) :
                     RowCells(rows, i) # <<>> /\ Contains(section_name, RowCells(rows, i)[1])}
    IN  IF found = {} THEN 0 ELSE SetMin(found)

find_section_start(rows, section_name) ==
    LET found == {i \in 0..(Len(rows) - 1) :
                     RowCells(rows, i) # <<>> /\ Contains(section_name, RowCells(rows, i)[1])}
    IN  IF found = {} THEN -1 ELSE SetMin(found)

\* a non-empty cell of the row names a section, a table or a slope value
AnnouncesSection(next_cells) ==
    \E j \in 1..Len(next_cells) :
        /\ next_cells[j] # <<>>
        /\ \/ Contains(<<"D", "o", "n", "n", "é", "e", "s">>, next_cells[j])
           \/ Contains(<<"T", "a", "b", "l", "e", "a", "u">>, next_cells[j])
           \/ Contains(<<"V", "a", "l", "e", "u", "r">>, next_cells[j])

\* the while loop of _parse_key_value_pairs from row i on; end_section is
\* <<>> where the code has None
RECURSIVE KeyValueLoop(_, _, _, _)
KeyValueLoop(rows, i, end_section, pairs) ==
    IF i >= Len(rows) THEN pairs
    ELSE LET cells == RowCells(rows, i)
         IN  IF cells # <<>> /\ end_section # <<>> /\ Contains(end_section, cells[1])
             THEN pairs
             ELSE IF cells = <<>> \/ AllEmpty(cells)
             THEN IF i + 1 < Len(rows) /\ AnnouncesSection(RowCells(rows, i + 1))
                  THEN pairs
                  ELSE KeyValueLoop(rows, i + 1, end_section, pairs)
             ELSE IF Len(cells) >= 2 /\ cells[1] # <<>>
             THEN KeyValueLoop(rows, i + 1, end_section,
                      DictSet(pairs, cells[1], Str(IF Len(cells) > 2 THEN cells[3] ELSE cells[2])))
             ELSE KeyValueLoop(rows, i + 1, end_section, pairs)

parse_key_value_pairs(rows, start_idx, end_section) ==
    KeyValueLoop(rows, start_idx + 1, end_section, EmptyDict)

parse_patient_data(rows) ==
    LET admin == find_section_start(rows, SECTION_ADMIN_DATA)
        idx == IF admin = -1 THEN find_section_start(rows, SECTION_PATIENT_DATA) ELSE admin
    IN  IF idx = -1 THEN EmptyDict ELSE parse_key_value_pairs(rows, idx, <<>>)

parse_bio_data(rows) ==
    LET idx == find_section_start(rows, SECTION_BIO_DATA)
    IN  IF idx = -1 THEN EmptyDict ELSE parse_key_value_pairs(rows, idx, <<>>)

parse_test_metadata(rows) ==
    LET idx == find_section_start(rows, SECTION_TEST_DATA)
    IN  IF idx = -1 THEN EmptyDict ELSE parse_key_value_pairs(rows, idx, <<>>)

\* row_data of a summary row: for j, header in enumerate(headers), when
\* j < len(cells), row_data[header] = _convert_value(cells[j])
RECURSIVE SummaryRowData(_, _, _, _)
SummaryRowData(headers, cells, j, row_data) ==
    IF j > Len(headers) THEN row_data
    ELSE SummaryRowData(headers, cells, j + 1,
             IF j <= Len(cells) THEN DictSet(row_data, headers[j], convert_value(cells[j]))
             ELSE row_data)

\* the header search of _parse_summary_table: index of the first row from i
\* on whose first cell contains "Variable", len(rows) when there is none
SummaryHeaderRow(rows, i) ==
    LET found == {k \in i..(Len(rows) - 1) :
                     RowCells(rows, k) # <<>> /\ Contains(<<"V", "a", "r", "i", "a", "b", "l", "e">>, RowCells(rows, k)[1])}
    IN  IF found = {} THEN Len(rows) ELSE SetMin(found)

\* variant: no row ends the summary table
EndsSummaryNever(cells) == FALSE

\* a non-empty cell of the row ends the summary table
EndsSummary(cells) ==
    \E j \in 1..Len(cells) :
        /\ cells[j] # <<>>
        /\ \/ Contains(<<"V", "a", "l", "e", "u", "r", " ", "d", "e", " ", "p", "e", "n", "t", "e">>, cells[j])
           \/ Contains(<<"M", "e", "a", "s", "u", "r", "e", "m", "e", "n", "t", " ", "D", "a", "t", "a">>, cells[j])

\* the data loop of _parse_summary_table from row i on
RECURSIVE SummaryLoop(_, _, _, _)
SummaryLoop(rows, i, headers, table) ==
    IF i >= Len(rows) THEN table
    ELSE LET cells == RowCells(rows, i)
         IN  IF cells = <<>> \/ AllEmpty(cells)
             THEN IF i + 1 < Len(rows)
                     /\ (RowCells(rows, i + 1) = <<>> \/ AllEmpty(RowCells(rows, i + 1)))
                  THEN table
                  ELSE SummaryLoop(rows, i + 1, headers, table)
             ELSE IF EndsSummary(cells) THEN table
             ELSE IF Len(cells) >= 2 /\ cells[1] # <<>>
             THEN SummaryLoop(rows, i + 1, headers,
                      DictSet(table, cells[1], SummaryRowData(headers, cells, 1, EmptyDict)))
             ELSE SummaryLoop(rows, i + 1, headers, table)

parse_summary_table(rows) ==
    LET idx == find_section_start(rows, SECTION_SUMMARY_TABLE)
        h == SummaryHeaderRow(rows, idx + 1)
    IN  IF idx = -1 THEN EmptyDict
        ELSE IF h = Len(rows) THEN EmptyDict
        ELSE SummaryLoop(rows, h + 1, RowCells(rows, h), EmptyDict)

\* time_str.split(':')
RECURSIVE SplitColon(_)
SplitColon(s) ==
    LET colons == {i \in 1..Len(s) : s[i] = ":"}
    IN  IF colons = {} THEN <<s>>
        ELSE <<SubSeq(s, 1, SetMin(colons) - 1)>> \o SplitColon(SubSeq(s, SetMin(colons) + 1, Len(s)))

ZeroFloat == [ty |-> "float", neg |-> FALSE, inf |-> FALSE, m |-> 0, e |-> 0]

\* n + x for an int n and a float x, exact on decimals; a float of 10^7 and
\* more is taken to absorb n
IntPlusFloat(n, x) ==
    LET k == IF x.e < 0 THEN -x.e ELSE 0
        scaled == (IF x.neg THEN -1 ELSE 1) * x.m * Pow10(x.e + k) + n * Pow10(k)
    IN  IF x.inf \/ x.e > 6 THEN x
        ELSE IF scaled = 0 THEN ZeroFloat
        ELSE MakeFloat(scaled < 0, IF scaled < 0 THEN -scaled ELSE scaled, -k)

\* variant: the decimal comma of the seconds is not converted
time_to_seconds_no_comma(time_str) ==
    LET parts == SplitColon(time_str)
    IN  IF Len(parts) = 3 /\ IsIntText(parts[1]) /\ IsIntText(parts[2]) /\ IsFloatText(parts[3])
        THEN IntPlusFloat(PyInt(parts[1]).v * 3600 + PyInt(parts[2]).v * 60, PyFloat(parts[3]))
        ELSE ZeroFloat

\* variant: the minutes field is left out of the sum
time_to_seconds_without_minutes(time_str) ==
    LET parts == SplitColon(ReplaceChar(time_str, ",", "."))
    IN  IF Len(parts) = 3 /\ IsIntText(parts[1]) /\ IsIntText(parts[2]) /\ IsFloatText(parts[3])
        THEN IntPlusFloat(PyInt(parts[1]).v * 3600, PyFloat(parts[3]))
        ELSE ZeroFloat

time_to_seconds(time_str) ==
    LET parts == SplitColon(ReplaceChar(time_str, ",", "."))
    IN  IF Len(parts) = 3 /\ IsIntText(parts[1]) /\ IsIntText(parts[2]) /\ IsFloatText(parts[3])
        THEN IntPlusFloat(PyInt(parts[1]).v * 3600 + PyInt(parts[2]).v * 60, PyFloat(parts[3]))
        ELSE ZeroFloat

\* re.match(r'\d+:\d+:\d+', s), on the ASCII digits
StartsWithTime(s) ==
    LET h == RunLen(s, 1, DigitChars)
        m == RunLen(s, h + 2, DigitChars)
    IN  /\ h >= 1
        /\ h + 1 <= Len(s) /\ s[h + 1] = ":"
        /\ m >= 1
        /\ h + m + 2 <= Len(s) /\ s[h + m + 2] = ":"
        /\ RunLen(s, h + m + 3, DigitChars) >= 1

\* row_data of a measurement row: the t column gives t_seconds and t, every
\* other column with a header its converted cell
RECURSIVE MeasurementRowData(_, _, _, _)
MeasurementRowData(headers, cells, j, row_data) ==
    IF j > Len(headers) THEN row_data
    ELSE MeasurementRowData(headers, cells, j + 1,
             IF j <= Len(cells) /\ headers[j] # <<>>
             THEN IF headers[j] = <<"t">>
                  THEN DictSet(DictSet(row_data, <<"t", "_", "s", "e", "c", "o", "n", "d", "s">>, time_to_seconds(cells[j])),
                               <<"t">>, Str(cells[j]))
                  ELSE DictSet(row_data, headers[j], convert_value(cells[j]))
             ELSE row_data)

\* the data loop of _parse_measurement_data from row i on
RECURSIVE MeasurementLoop(_, _, _, _)
MeasurementLoop(rows, i, headers, measurements) ==
    IF i >= Len(rows) THEN measurements
    ELSE LET cells == RowCells(rows, i)
         IN  IF cells = <<>> \/ cells[1] = <<>>
             THEN MeasurementLoop(rows, i + 1, headers, measurements)
             ELSE IF ~StartsWithTime(cells[1]) THEN measurements
             ELSE MeasurementLoop(rows, i + 1, headers,
                      Append(measurements, MeasurementRowData(headers, cells, 1, EmptyDict)))

\* the header search of _parse_measurement_data: index of the first row from
\* i on whose first cell is "t", len(rows) when there is none
MeasurementHeaderRow(rows, i) ==
    LET found == {k \in i..(Len(rows) - 1) :
                     RowCells(rows, k) # <<>> /\ RowCells(rows, k)[1] = <<"t">>}
    IN  IF found = {} THEN Len(rows) ELSE SetMin(found)

\* the row after the headers is the units row and is skipped
parse_measurement_data(rows) ==
    LET idx == find_section_start(rows, SECTION_MEASUREMENT_DATA)
        h == MeasurementHeaderRow(rows, idx + 1)
    IN  IF idx = -1 THEN <<>>
        ELSE IF h = Len(rows) THEN <<>>
        ELSE MeasurementLoop(rows, h + 2, RowCells(rows, h), <<>>)

----------------------------------------------------------------------------
(* The extractors' loops, one iteration at a time.  A scan is                *)
(* [extractor, loop, i, visited]: the extractor at work, the loop it is in   *)
(* ("headers" is the search of the header row, "rows" the loop over the      *)
(* rows, "done" after the return), the scan index i, and the row indices it  *)
(* has read as rows[i], in the order it read them.                           *)

Extractors == {"patient_data", "summary_table", "measurement_data"}

\* the call up to its first loop: the section is looked up and the scan
\* starts on the row after its heading; a section that is not found returns
\* at once, with no row read
start_scan(rows, extractor) ==
    LET admin == find_section_start(rows, SECTION_ADMIN_DATA)
        idx == CASE extractor = "patient_data" ->
                        IF admin = -1 THEN find_section_start(rows, SECTION_PATIENT_DATA) ELSE admin
                 [] extractor = "summary_table" -> find_section_start(rows, SECTION_SUMMARY_TABLE)
                 [] extractor = "measurement_data" -> find_section_start(rows, SECTION_MEASUREMENT_DATA)
    IN  IF idx = -1
        THEN [extractor |-> extractor, loop |-> "done", i |-> idx, visited |-> <<>>]
        ELSE [extractor |-> extractor,
              loop |-> IF extractor = "patient_data" THEN "rows" ELSE "headers",
              i |-> idx + 1, visited |-> <<>>]

\* one iteration of the while loop of _parse_key_value_pairs, end_section None
key_value_step(rows, sc) ==
    IF sc.i >= Len(rows) THEN [sc EXCEPT !.loop = "done"]
    ELSE LET cells == RowCells(rows, sc.i)
             read == [sc EXCEPT !.visited = Append(@, sc.i)]
         IN  IF cells = <<>> \/ AllEmpty(cells)
             THEN IF sc.i + 1 < Len(rows) /\ AnnouncesSection(RowCells(rows, sc.i + 1))
                  THEN [read EXCEPT !.loop = "done"]
                  ELSE [read EXCEPT !.i = @ + 1]
             ELSE [read EXCEPT !.i = @ + 1]

\* one iteration of the header search of _parse_summary_table; the loop over
\* the rows follows it, and returns at once when no header row was found
summary_header_step(rows, sc) ==
    IF sc.i >= Len(rows) THEN [sc EXCEPT !.loop = "done"]
    ELSE LET cells == RowCells(rows, sc.i)
             read == [sc EXCEPT !.visited = Append(@, sc.i)]
         IN  IF cells # <<>> /\ Contains(<<"V", "a", "r", "i", "a", "b", "l", "e">>, cells[1])
             THEN [read EXCEPT !.i = @ + 1, !.loop = "rows"]
             ELSE [read EXCEPT !.i = @ + 1]

\* one iteration of the loop over the rows of _parse_summary_table
summary_row_step(rows, sc) ==
    IF sc.i >= Len(rows) THEN [sc EXCEPT !.loop = "done"]
    ELSE LET cells == RowCells(rows, sc.i)
             read == [sc EXCEPT !.visited = Append(@, sc.i)]
         IN  IF cells = <<>> \/ AllEmpty(cells)
             THEN IF sc.i + 1 < Len(rows)
                     /\ (RowCells(rows, sc.i + 1) = <<>> \/ AllEmpty(RowCells(rows, sc.i + 1)))
                  THEN [read EXCEPT !.loop = "done"]
                  ELSE [read EXCEPT !.i = @ + 1]
             ELSE IF EndsSummary(cells) THEN [read EXCEPT !.loop = "done"]
             ELSE [read EXCEPT !.i = @ + 1]

\* one iteration of the header search of _parse_measurement_data: the row
\* after the header row is the units row, stepped over when there is one
measurement_header_step(rows, sc) ==
    IF sc.i >= Len(rows) THEN [sc EXCEPT !.loop = "done"]
    ELSE LET cells == RowCells(rows, sc.i)
             read == [sc EXCEPT !.visited = Append(@, sc.i)]
         IN  IF cells # <<>> /\ cells[1] = <<"t">>
             THEN IF sc.i + 1 < Len(rows)
                  THEN [read EXCEPT !.visited = Append(@, sc.i + 1), !.i = @ + 2, !.loop = "rows"]
                  ELSE [read EXCEPT !.i = @ + 1, !.loop = "rows"]
             ELSE [read EXCEPT !.i = @ + 1]

\* variant: a row without a time cell is passed over with the index left where
\* it is
measurement_row_step_in_place(rows, sc) ==
    IF sc.i >= Len(rows) THEN [sc EXCEPT !.loop = "done"]
    ELSE LET cells == RowCells(rows, sc.i)
             read == [sc EXCEPT !.visited = Append(@, sc.i)]
         IN  IF cells = <<>> \/ cells[1] = <<>> THEN read
             ELSE IF ~StartsWithTime(cells[1]) THEN [read EXCEPT !.loop = "done"]
             ELSE [read EXCEPT !.i = @ + 1]

\* one iteration of the loop over the rows of _parse_measurement_data
measurement_row_step(rows, sc) ==
    IF sc.i >= Len(rows) THEN [sc EXCEPT !.loop = "done"]
    ELSE LET cells == RowCells(rows, sc.i)
             read == [sc EXCEPT !.visited = Append(@, sc.i)]
         IN  IF cells = <<>> \/ cells[1] = <<>> THEN [read EXCEPT !.i = @ + 1]
             ELSE IF ~StartsWithTime(cells[1]) THEN [read EXCEPT !.loop = "done"]
             ELSE [read EXCEPT !.i = @ + 1]

\* the iteration the scan is at
scan_step(rows, sc) ==
    CASE sc.extractor = "patient_data" -> key_value_step(rows, sc)
      [] sc.extractor = "summary_table" /\ sc.loop = "headers" -> summary_header_step(rows, sc)
      [] sc.extractor = "summary_table" /\ sc.loop = "rows" -> summary_row_step(rows, sc)
      [] sc.extractor = "measurement_data" /\ sc.loop = "headers" -> measurement_header_step(rows, sc)
      [] sc.extractor = "measurement_data" /\ sc.loop = "rows" -> measurement_row_step(rows, sc)

----------------------------------------------------------------------------
(* TCPXmlParser.parse_file.  A workbook is [wellformed, worksheets]; a       *)
(* worksheet is [name, has_table, rows].                                     *)

WORKSHEET_NAME == "MetasoftStudio"

\* root.find of the worksheet: the first one named MetasoftStudio, and when
\* there is none the first worksheet whatever its name; 0 when there is none
FindWorksheet(worksheets) ==
    LET named == {w \in 1..Len(worksheets) : worksheets[w].name = WORKSHEET_NAME}
    IN  IF named # {} THEN SetMin(named)
        ELSE IF worksheets # <<>> THEN 1
        ELSE 0

\* ET.parse raises ParseError on a file that is not well-formed; a worksheet
\* without a Table makes table.findall an AttributeError
parse_file(name, wb) ==
    LET w == FindWorksheet(wb.worksheets)
        rows == wb.worksheets[w].rows
    IN  IF ~wb.wellformed THEN Raised("ParseError")
        ELSE IF w = 0 THEN Raised("ValueError")
        ELSE IF ~wb.worksheets[w].has_table THEN Raised("AttributeError")
        ELSE Returned([filename_data |-> parse_filename(name),
                       patient_data |-> parse_patient_data(rows),
                       bio_data |-> parse_bio_data(rows),
                       test_metadata |-> parse_test_metadata(rows),
                       summary_data |-> parse_summary_table(rows),
                       measurements |-> parse_measurement_data(rows)])

\* TCPXmlParser.__init__: the attributes of a new instance.  replaced is not an
\* attribute: it records the tree that the last call of parse_file replaced
FreshParser == [filepath |-> None, root |-> None, replaced |-> None]

\* variant: the instance keeps the first tree it has read
OpenedOnce(instance, name, wb) ==
    [filepath |-> name,
     root |-> IF instance.root # None THEN instance.root ELSE wb,
     replaced |-> instance.root]

\* the instance after self.filepath, self.tree and self.root are assigned;
\* ET.parse raising leaves the tree of the call before
Opened(instance, name, wb) ==
    [filepath |-> name,
     root |-> IF wb.wellformed THEN wb ELSE instance.root,
     replaced |-> instance.root]

\* a call of parse_file on an instance: the instance after it, and what the
\* call returned or raised, read from self.root
parse_file_call(instance, name, wb) ==
    LET opened == Opened(instance, name, wb)
    IN  [self |-> opened,
         outcome |-> IF wb.wellformed THEN parse_file(name, opened.root)
                     ELSE Raised("ParseError")]

----------------------------------------------------------------------------
(* DataTransformer._build_protocole, _parse_volume, _build_patient_info;     *)
(* models.PatientInfo.to_dict.  Texts of the transformer's inputs are        *)
(* Str(s) with s a sequence of one-character strings.                        *)

EmptyStr == Str(<<>>)

\* s.replace(old, new): every occurrence of old, leftmost first, not overlapping
RECURSIVE ReplaceAll(_, _, _)
ReplaceAll(s, old, new) ==
    IF Len(s) < Len(old) THEN s
    ELSE IF SubSeq(s, 1, Len(old)) = old
         THEN new \o ReplaceAll(SubSeq(s, Len(old) + 1, Len(s)), old, new)
         ELSE <<s[1]>> \o ReplaceAll(Tail(s), old, new)

\* a or b
PyOr(a, b) == IF Truthy(a) THEN a ELSE b

\* a section of the manual input: the dict under the key, {} when the key is absent
Section(d, k) == Get(d, k, EmptyDict)

build_protocole(xml, manual) ==
    [vitesse_depart_test |->
        Get(Section(manual, "stress_test_results"), "first_stage_speed", None),
     description |-> Get(manual, "protocol_description", EmptyStr)]

\* the weight text of the biometric section as a float, None when float() rejects it
weight_xml_keeps_kg(weight_str) ==
    IF weight_str.s = <<>> THEN None
    ELSE LET clean == Strip(ReplaceChar(weight_str.s, ",", "."))
         IN  IF IsFloatText(clean) THEN PyFloat(clean) ELSE None

weight_xml(weight_str) ==
    IF weight_str.s = <<>> THEN None
    ELSE LET clean == Strip(ReplaceChar(ReplaceAll(weight_str.s, <<"k", "g">>, <<>>),
                                        ",", "."))
         IN  IF IsFloatText(clean) THEN PyFloat(clean) ELSE None

\* None or an empty text gives None; units removed, comma as point, float() or None
parse_volume(volume_str) ==
    IF volume_str = None \/ volume_str.s = <<>> THEN None
    ELSE LET clean == Strip(ReplaceAll(ReplaceAll(volume_str.s, <<"k", "m">>, <<>>),
                                       <<"h">>, <<>>))
         IN  IF IsFloatText(ReplaceChar(clean, ",", "."))
             THEN PyFloat(ReplaceChar(clean, ",", "."))
             ELSE None

\* the three jump fields of PatientInfo nobody assigns
EmptyJump == [hauteur_cm |-> None, force_max_kfg_kg |-> None, puissance_max_w_kg |-> None]

build_patient_info(xml, manual) ==
    LET bio_data == Get(xml, "bio_data", EmptyDict)
        identity == Section(manual, "identity")
        body_comp == Section(manual, "body_composition")
        prof_life == Section(manual, "professional_life")
        equipment == Section(manual, "equipment_and_tracking")
        history == Section(manual, "history_and_goals")
        stress == Section(manual, "stress_test_results")
        predictions == Section(equipment, "watch_race_predictions")
    IN  [nom |-> Get(identity, "last_name", EmptyStr),
         prenom |-> Get(identity, "first_name", EmptyStr),
         date_naissance |-> Get(identity, "date_of_birth", EmptyStr),
         age |-> Get(identity, "age", None),
         sport_base |-> Get(identity, "sport_practiced", EmptyStr),
         specialty |-> Get(identity, "specialty", EmptyStr),
         has_coach |-> Get(identity, "has_coach", Bool(FALSE)),
         taille_cm |-> Get(body_comp, "height_cm", None),
         poids_actuel |-> Get(body_comp, "current_weight", None),
         poids_debut |-> PyOr(Get(body_comp, "weight_before_test", None),
                              weight_xml(Get(bio_data, "Poids", EmptyStr))),
         poids_final |-> Get(body_comp, "weight_after_test", None),
         metier |-> Get(prof_life, "job_title", EmptyStr),
         heures_travail |-> Get(prof_life, "working_hours_per_week", None),
         marque_montre |-> Get(equipment, "watch_brand", EmptyStr),
         vo2_montre |-> Get(equipment, "watch_estimated_vo2", None),
         fc_repos |-> Get(equipment, "min_hr_before", None),
         fcmax_ever |-> Get(equipment, "max_hr_ever", None),
         volume_cap |-> parse_volume(Get(equipment, "average_weekly_volume", EmptyStr)),
         prediction_5k |-> Get(predictions, "5k", EmptyStr),
         prediction_10k |-> Get(predictions, "10k", EmptyStr),
         prediction_semi |-> Get(predictions, "half_marathon", EmptyStr),
         prediction_marathon |-> Get(predictions, "marathon", EmptyStr),
         records_officiels |-> Get(history, "official_records", EmptyStr),
         trail_runner |-> Get(history, "trail_runner", Bool(FALSE)),
         utmb_index |-> Get(history, "utmb_index", None),
         objectifs |-> Get(history, "upcoming_goals", EmptyStr),
         seance_veille |-> Get(manual, "seance_veille", EmptyStr),
         observations |-> Get(manual, "observations", EmptyStr),
         last_stage_speed |-> Get(stress, "last_stage_speed", None),
         annee_debut |-> None,
         rsi_avant |-> None,
         rsi_apres |-> None,
         cmj_avant |-> EmptyJump,
         cmj_apres |-> EmptyJump,
         notes_privees |-> EmptyStr,
         altitude_vie_m |-> None,
         spo2_avant |-> None,
         spo2_apres |-> None,
         lactatemie_repos |-> None]

----------------------------------------------------------------------------
(* DataTransformer.transform; models.TestResult.to_dict *)

\* f"{last_name} {first_name}".strip(), each name from the patient section when
\* its key is there and from the filename otherwise
athlete_name_unstripped(xml) ==
    LET filename_fields == Get(xml, "filename_data", EmptyDict)
        patient_data == Get(xml, "patient_data", EmptyDict)
        last_name == Get(patient_data, "Nom", Get(filename_fields, "last_name", EmptyStr))
        first_name == Get(patient_data, "Prénom", Get(filename_fields, "first_name", EmptyStr))
    IN  Str(last_name.s \o <<" ">> \o first_name.s)

athlete_name(xml) == Str(Strip(athlete_name_unstripped(xml).s))

\* the value transform returns when no statement of it raises
transform(xml, manual) ==
    LET seuils == build_seuils(Get(xml, "summary_data", EmptyDict), manual)
    IN  [user_id |-> Get(manual, "email", EmptyStr),
         athlete_name |-> athlete_name(xml),
         test_date |-> Get(Get(xml, "filename_data", EmptyDict), "date", EmptyStr),
         test_type |-> "VO2max",
         consentements |-> [risques |-> FALSE, donnees |-> FALSE, anonyme |-> FALSE],
         seuils |-> seuils,
         protocole |-> build_protocole(xml, manual),
         test_lactate |-> build_test_lactate(manual),
         observations_lactate |-> Get(manual, "observations_lactate", EmptyStr),
         patient_info |-> build_patient_info(xml, manual),
         conseils_entrainements |-> Get(manual, "conseils_entrainements", EmptyStr),
         graphiques |-> build_graphiques(Get(xml, "measurements", <<>>), seuils),
         logos |-> [logo_gauche |-> "assets/logos/logo1.png",
                    logo_droit |-> "assets/logos/logo1.png"],
         partenaires |-> [titre |-> "Nos Partenaires", logos |-> <<>>]]

\* the sections transform calls .get on; one bound to None makes that call raise
\* (a lactate_profile of None, which the loop over it rejects, is not modelled)
NoneSection(manual) ==
    LET stress == Section(manual, "stress_test_results")
        thresholds == IF stress = None THEN EmptyDict ELSE Section(stress, "thresholds")
        equipment == Section(manual, "equipment_and_tracking")
    IN  \/ stress = None
        \/ thresholds = None
        \/ thresholds # None /\ Section(thresholds, "sv1") = None
        \/ thresholds # None /\ Section(thresholds, "sv2") = None
        \/ Section(manual, "identity") = None
        \/ Section(manual, "body_composition") = None
        \/ Section(manual, "professional_life") = None
        \/ equipment = None
        \/ equipment # None /\ Section(equipment, "watch_race_predictions") = None
        \/ Section(manual, "history_and_goals") = None

\* a call of transform: what it returns, or the error of .get on a None section
transform_call(xml, manual) ==
    IF NoneSection(manual) THEN Raised("AttributeError")
    ELSE Returned(transform(xml, manual))

----------------------------------------------------------------------------
(* core/profile_template.py: get_empty_profile *)

EmptyThreshold == [hr_bpm |-> None, pace_km_h |-> None, vo2_ml_kg_min |-> None]

EmptyRaces == [k \in {"5k", "10k", "half_marathon", "marathon"} |-> EmptyStr]

get_empty_profile ==
    [email |-> EmptyStr,
     identity |->
        [last_name |-> EmptyStr, first_name |-> EmptyStr, date_of_birth |-> EmptyStr,
         age |-> None, sport_practiced |-> EmptyStr, specialty |-> EmptyStr,
         has_coach |-> Bool(FALSE)],
     body_composition |->
        [height_cm |-> None, current_weight |-> None,
         weight_before_test |-> None, weight_after_test |-> None],
     professional_life |-> [job_title |-> EmptyStr, working_hours_per_week |-> None],
     equipment_and_tracking |->
        [watch_brand |-> EmptyStr, watch_estimated_vo2 |-> None, min_hr_before |-> None,
         max_hr_ever |-> None, average_weekly_volume |-> EmptyStr,
         watch_race_predictions |-> EmptyRaces],
     history_and_goals |->
        [personal_records |-> EmptyRaces, utmb_index |-> None, upcoming_goals |-> EmptyStr],
     seance_veille |-> EmptyStr,
     observations |-> EmptyStr,
     protocol_description |-> EmptyStr,
     stress_test_results |->
        [thresholds |-> [sv1 |-> EmptyThreshold, sv2 |-> EmptyThreshold],
         measured_vo2max |-> None,
         max_hr |-> None,
         first_stage_speed |-> None,
         last_stage_speed |-> None,
         lactate_profile |-> <<>>],
     conseils_entrainements |-> EmptyStr]

\* what parse_file returns for a grid with no section at all
EmptyDocument ==
    [filename_data |-> EmptyDict, patient_data |-> EmptyDict, bio_data |-> EmptyDict,
     test_metadata |-> EmptyDict, summary_data |-> EmptyDict, measurements |-> <<>>]

----------------------------------------------------------------------------
(* Batch exports: SessionTab._export_all_matches (main_session.py),          *)
(* TCPDataProcessor._export_all (main.py), JsonExporter.export_batch.        *)
(* A record of a batch is described by what goes wrong with it (flaw) and by *)
(* what the caller's progress callback does when called for it (notify).     *)
(* A run is [over, attempted, success, errors]: the records the loop is      *)
(* over, the ones whose export was entered, the ones counted as successes    *)
(* and the ones an error was recorded for, each as indices in loop order     *)
(* (the code keeps a count or a list of them: its size is the Len).          *)

Flaws == {"none", "no_profile", "no_email", "no_xml", "parse_error", "write_error"}

Run(over, attempted, success, errors) ==
    [over |-> over, attempted |-> attempted, success |-> success, errors |-> errors]

\* the loop of _export_all_matches: three checks that continue, then parse,
\* transform and save inside one try whose handler records the error
RECURSIVE MatchesLoop(_, _, _, _)
MatchesLoop(matches, i, success, errors) ==
    IF i > Len(matches) THEN Run([k \in 1..Len(matches) |-> k],
                                 [k \in 1..Len(matches) |-> k], success, errors)
    ELSE IF matches[i].flaw = "none"
         THEN MatchesLoop(matches, i + 1, Append(success, i), errors)
         ELSE MatchesLoop(matches, i + 1, success, Append(errors, i))

export_all_matches(matches) == MatchesLoop(matches, 1, <<>>, <<>>)

\* the tests _export_all keeps: the ones whose manual data has an email
HasEmail(test) == test.flaw \notin {"no_profile", "no_email"}

RECURSIVE ValidTests(_, _)
ValidTests(test_items, i) ==
    IF i > Len(test_items) THEN <<>>
    ELSE (IF HasEmail(test_items[i]) THEN <<i>> ELSE <<>>) \o ValidTests(test_items, i + 1)

\* the loop of _export_all over the valid tests: parse, transform and export
\* inside one try whose handler records the error
RECURSIVE AllLoop(_, _, _, _, _)
AllLoop(test_items, valid_tests, j, success, errors) ==
    IF j > Len(valid_tests) THEN Run(valid_tests, valid_tests, success, errors)
    ELSE IF test_items[valid_tests[j]].flaw = "none"
         THEN AllLoop(test_items, valid_tests, j + 1, Append(success, valid_tests[j]), errors)
         ELSE AllLoop(test_items, valid_tests, j + 1, success, Append(errors, valid_tests[j]))

export_all(test_items) == AllLoop(test_items, ValidTests(test_items, 1), 1, <<>>, <<>>)

\* the loop of export_batch: export, append to success, then the progress
\* callback, all inside the try; the handler appends to failed
RECURSIVE BatchLoop(_, _, _, _)
BatchLoop(data_list, i, success, failed) ==
    IF i > Len(data_list) THEN Run([k \in 1..Len(data_list) |-> k],
                                   [k \in 1..Len(data_list) |-> k], success, failed)
    ELSE IF data_list[i].flaw # "none"
         THEN BatchLoop(data_list, i + 1, success, Append(failed, i))
         ELSE IF data_list[i].notify = "raises"
              THEN BatchLoop(data_list, i + 1, Append(success, i), Append(failed, i))
              ELSE BatchLoop(data_list, i + 1, Append(success, i), failed)

export_batch(data_list) == BatchLoop(data_list, 1, <<>>, <<>>)

----------------------------------------------------------------------------
(* SessionManager (session_manager.py) and the matching page that drives it  *)
(* (XmlMatchTab, main_session.py).  A file name is [safe_name, counter]:     *)
(* counter 0 is <safe_name>.json, counter n is <safe_name>_<n>.json.  A      *)
(* session is [profiles, xmls, matches, listed, pos, last]: the profile      *)
(* files with the name and the email they hold, the XML files, the matches   *)
(* in list order, the profile files the matching page lists (they are read   *)
(* when the page refreshes), the position of a running export of all         *)
(* matches (0 when none runs), and the match and outcome of the last export. *)

File(safe_name, counter) == [safe_name |-> safe_name, counter |-> counter]

\* "forms_" + the sanitized name of the profile
ProfileSafeName(profile_data) == <<"forms", profile_data.name>>

ProfileFiles(s) == {p.file : p \in s.profiles}
ProfileAt(s, file_name) == CHOOSE p \in s.profiles : p.file = file_name

Match(profile_name, xml_filename) ==
    [profile_name |-> profile_name, xml_filename |-> xml_filename, exported |-> FALSE]

\* the loop "while filepath.exists()": the plain name, then the counters from
\* 1 on, up to the first name that no file has
RECURSIVE FirstFree(_, _, _)
FirstFree(files, safe_name, counter) ==
    IF File(safe_name, counter) \in files THEN FirstFree(files, safe_name, counter + 1)
    ELSE File(safe_name, counter)

\* the loop "while new_filepath.exists() and new_filepath != filepath"
RECURSIVE FirstFreeOrSelf(_, _, _, _)
FirstFreeOrSelf(files, safe_name, counter, filepath) ==
    IF File(safe_name, counter) \in files /\ File(safe_name, counter) # filepath
    THEN FirstFreeOrSelf(files, safe_name, counter + 1, filepath)
    ELSE File(safe_name, counter)

add_profile(s, profile_data) ==
    LET file_name == FirstFree(ProfileFiles(s), ProfileSafeName(profile_data), 0)
    IN  [s EXCEPT !.profiles = @ \cup {[file |-> file_name, name |-> profile_data.name,
                                        email |-> profile_data.email]}]

\* a file that is not there is left alone; a new name renames the file and
\* the matches of the old name
update_profile(s, file_name, profile_data) ==
    LET new_safe_name == ProfileSafeName(profile_data)
        new_filename == IF File(new_safe_name, 0) # file_name
                        THEN FirstFreeOrSelf(ProfileFiles(s), new_safe_name, 0, file_name)
                        ELSE file_name
        renamed == [j \in 1..Len(s.matches) |->
                       IF s.matches[j].profile_name = file_name
                       THEN [s.matches[j] EXCEPT !.profile_name = new_filename]
                       ELSE s.matches[j]]
    IN  IF file_name \notin ProfileFiles(s) THEN s
        ELSE [s EXCEPT !.matches = IF File(new_safe_name, 0) # file_name THEN renamed ELSE @,
                       !.profiles = (@ \ {ProfileAt(s, file_name)})
                                    \cup {[file |-> new_filename, name |-> profile_data.name,
                                           email |-> profile_data.email]}]

IsMatchOf(profile_filename, m) == m.profile_name = profile_filename

delete_profile(s, file_name) ==
    IF file_name \in ProfileFiles(s)
    THEN [s EXCEPT !.profiles = @ \ {ProfileAt(s, file_name)},
                   !.matches = SelectSeq(@, LAMBDA m : ~IsMatchOf(file_name, m))]
    ELSE s

import_xml(s, stem) == [s EXCEPT !.xmls = @ \cup {FirstFree(s.xmls, stem, 0)}]

\* any match of this profile or of this XML gives way to the new one
create_match(s, profile_filename, xml_filename) ==
    [s EXCEPT !.matches =
        Append(SelectSeq(@, LAMBDA m : m.profile_name # profile_filename
                                       /\ m.xml_filename # xml_filename),
               Match(profile_filename, xml_filename))]

remove_match(s, profile_filename) ==
    [s EXCEPT !.matches = SelectSeq(@, LAMBDA m : ~IsMatchOf(profile_filename, m))]

\* the first match of the list with this profile name is flagged
mark_as_exported(matches, profile_filename) ==
    LET hits == {j \in 1..Len(matches) : matches[j].profile_name = profile_filename}
    IN  IF hits = {} THEN matches
        ELSE [matches EXCEPT ![SetMin(hits)].exported = TRUE]

\* XmlMatchTab.refresh: the page lists the profile files of the session
refresh(s) == [s EXCEPT !.listed = ProfileFiles(s)]

\* the steps of an export that can raise, by the content of the XML file and
\* the state of the disk
ExportFaults == {"none", "parse_error", "transform_error", "save_error"}

\* how the export of a match ends: the profile and its email are looked up,
\* then the file is parsed, transformed and saved
export_outcome(s, m, fault) ==
    IF m.profile_name \notin ProfileFiles(s) THEN "no_profile"
    ELSE IF ~ProfileAt(s, m.profile_name).email THEN "no_email"
    ELSE IF fault # "none" THEN fault
    ELSE "ok"

\* the body of _export_match and of the loop of _export_all_matches for the
\* k-th match: mark_as_exported is called after save_output has returned
export_match(s, k, fault) ==
    LET m == s.matches[k]
        outcome == export_outcome(s, m, fault)
    IN  [s EXCEPT !.matches = IF outcome = "ok" THEN mark_as_exported(@, m.profile_name) ELSE @,
                  !.last = [k |-> k, outcome |-> outcome]]

NoExport == [k |-> 0, outcome |-> "none"]

----------------------------------------------------------------------------
(* Bounds and input sets of the transformer specifications *)

MaxZoneRows == 3
MaxSamples == 6
MaxLactate == 3
MaxBatch == 3

\* elapsed seconds and heart rates of the end-to-end scenario
ZoneTimes == {0, 15, 30}
ZoneFCs == {100, 150, 170}
HrValues == {150, 170}

\* elapsed seconds around the bucket boundaries at 15 and 30, and two heart rates
SampleTimes == {0, 5, 10, 14, 15, 16, 20, 30}
SampleFCs == {100, 101}

\* rows of a stream whose heart rates lie around the 2% bands of the
\* thresholds: 147..153 for 150 bpm, 166..173 for 170 bpm; None: the cell "-"
MaxBandRows == 2
BandTimes == {0, 5, 15, 30}
BandFCs == {None, Sec(146), Sec(147), Sec(153), Sec(166), Sec(174)}
MaxHrValues == {150, 170}

\* VO2 at a threshold: ml/min/kg as the operator enters it, l/min (or no
\* value) as the summary table holds it
Vo2Values == {35, 45}
SummaryVo2Values == {None, Num(250), Num(314)}

\* pace and maximal speed in km/h; 0 is a value the form can hold
PaceValues == {0, 12, 13}
VmaValues == {0, 15}

\* speed (km/h) and lactate (mmol/l) of a lactate entry; None: left blank
LactateValues == {None, Num(0), Num(2 * Scale)}

\* characters a cell of the model is typed from
MaxCellLen == 5
CellChars == {"0", "1", "3", "4", ",", ".", "-", " ", "e"}

\* file names the model hands to the parser: the parts of a well-formed name
\* and ill-formed variants of each
NamePrefixes == {<<"T", "C", "P", "_", "_">>, <<"T", "C", "P", "_">>, <<"x", "T", "C", "P", "_", "_">>}
LastNames == {<<"D", "O", "E">>, <<"D", "o", "e">>}
FirstNames == {<<"J", "a", "n", "e">>, <<"Z", "o", "é">>, <<"J", "4">>}
Years == {<<"2", "0", "2", "4">>, <<"2", "4">>}
Seconds == {<<"0", "5">>, <<"5">>}
NameSuffixes == {<<"_", ".", "x", "m", "l">>, <<".", "x", "m", "l">>, <<"_", ".", "x", "m", "l", ".", "b", "a", "k">>}
FileName(prefix, last, first, year, second, suffix) ==
    prefix \o last \o <<"_">> \o first \o <<"_">> \o year \o <<".", "0", "1", ".", "0", "2", "_">>
        \o <<"0", "3", ".", "0", "4", ".">> \o second \o suffix

\* workbooks the model hands to the parser
MaxRows == 5
WorksheetNames == {WORKSHEET_NAME, "Sheet1"}

Cell(text) == [has_data |-> TRUE, text |-> text]
EmptyCell == [has_data |-> FALSE, text |-> <<>>]
RowOf(texts) == [j \in 1..Len(texts) |-> Cell(texts[j])]

\* blocks of rows a worksheet is written from: the six sections with one
\* content row each, and single rows
AdminSection ==
    <<RowOf(<<SECTION_ADMIN_DATA>>),
      RowOf(<<<<"N", "o", "m">>, <<>>, <<"D", "O", "E">>>>)>>
PatientSection ==
    <<RowOf(<<SECTION_PATIENT_DATA>>),
      RowOf(<<<<"P", "r", "é", "n", "o", "m">>, <<"J", "a", "n", "e">>>>)>>
BioSection ==
    <<RowOf(<<SECTION_BIO_DATA>>),
      RowOf(<<<<" ", "P", "o", "i", "d", "s", " ">>, <<>>, <<"7", "0", ",", "5", " ", "k", "g">>>>)>>
TestSection ==
    <<RowOf(<<SECTION_TEST_DATA>>),
      RowOf(<<<<"D", "u", "r", "é", "e">>, <<>>, <<"0", ":", "1", "0", ":", "0", "0">>>>)>>
SummarySection ==
    <<RowOf(<<SECTION_SUMMARY_TABLE>>),
      RowOf(<<<<"V", "a", "r", "i", "a", "b", "l", "e">>, <<"U", "n", "i", "t", "é">>, <<"V", "T", "1">>>>),
      RowOf(<<<<"F", "C">>, <<"/", "m", "i", "n">>, <<"1", "5", "0">>>>)>>
MeasurementSection ==
    <<RowOf(<<SECTION_MEASUREMENT_DATA>>),
      RowOf(<<<<"t">>, <<"P", "h", "a", "s", "e">>, <<"F", "C">>>>),
      RowOf(<<<<"h", ":", "m", "m", ":", "s", "s">>, <<>>, <<"/", "m", "i", "n">>>>),
      RowOf(<<<<"0", ":", "0", "0", ":", "0", "5">>, <<"R", "e", "p", "o", "s">>, <<"1", "0", "0">>>>)>>
BlankRow == <<<<EmptyCell>>>>
SampleRow ==
    <<RowOf(<<<<"0", ":", "0", "1", ":", "1", "5", ",", "5", "0", "0">>, <<"E", "f", "f", "o", "r", "t">>, <<"-">>>>)>>
ValueRow ==
    <<RowOf(<<<<"V", "'", "O", "2">>, <<"l", "/", "m", "i", "n">>, <<"3", ",", "1", "4">>>>)>>
RowBlocks ==
    {AdminSection, PatientSection, BioSection, TestSection, SummarySection, MeasurementSection,
     BlankRow, SampleRow, ValueRow}

\* blocks a measurement stream is written from: the heading with the header
\* and units rows, the two sample rows, a blank row and a row that is no sample
MeasurementHead == SubSeq(MeasurementSection, 1, 3)
FirstSampleRow == SubSeq(MeasurementSection, 4, 4)
MeasurementBlocks == {MeasurementHead, FirstSampleRow, SampleRow, BlankRow, ValueRow}

\* names of the files parsed: one of the form, one not
ParsedNames ==
    {<<"T", "C", "P", "_", "_", "D", "O", "E", "_", "J", "a", "n", "e", "_", "2", "0", "2", "4", ".", "0", "1", ".", "0", "2", "_", "0", "3", ".", "0", "4", ".", "0", "5", "_", ".", "x", "m", "l">>,
     <<"e", "x", "p", "o", "r", "t", ".", "x", "m", "l">>}

TotalRows(wb) == SumSeq([w \in 1..Len(wb.worksheets) |-> Len(wb.worksheets[w].rows)])

Measurement(t, fc) == [t_seconds |-> Sec(t), FC |-> Sec(fc)]

Pending == result = NoResult /\ agg_out = NoResult

----------------------------------------------------------------------------
(* Operations *)

\* no call made yet on a component
IdleTransformer ==
    /\ xml_data = EmptyDocument
    /\ manual_input = get_empty_profile
    /\ result = NoResult
    /\ agg_out = NoResult
IdleCoercion == cell = <<>> /\ converted = NoResult
IdleFilename == filename = <<>> /\ filename_data = NoResult
IdleParser == workbook = NoResult /\ parsed = NoResult /\ parser = FreshParser
IdleBatch == batch = [records |-> <<>>, run |-> NoResult]
IdleScan == scan = [extractor |-> "none", loop |-> "idle", i |-> 0, visited |-> <<>>]
IdleSession ==
    session = [profiles |-> {}, xmls |-> {}, matches |-> <<>>, listed |-> {}, pos |-> 0,
               last |-> NoExport]

Init ==
    /\ IdleTransformer /\ IdleCoercion /\ IdleFilename /\ IdleParser /\ IdleBatch
    /\ IdleScan /\ IdleSession

\* the parser appends one measurement record (any order of elapsed times)
AppendZoneRow ==
    /\ Pending
    /\ Len(xml_data.measurements) < MaxZoneRows
    /\ \E t \in ZoneTimes, fc \in ZoneFCs :
          xml_data' = [xml_data EXCEPT !.measurements = Append(@, Measurement(t, fc))]
    /\ UNCHANGED <<manual_input, result, agg_out>>
    /\ UNCHANGED NotTransformer

\* the parser appends one measurement record, later than the ones before it
AppendSample ==
    /\ Pending
    /\ Len(xml_data.measurements) < MaxSamples
    /\ \E t \in SampleTimes, fc \in SampleFCs :
          /\ \A i \in 1..Len(xml_data.measurements) :
                xml_data.measurements[i]["t_seconds"].c < t * Scale
          /\ xml_data' = [xml_data EXCEPT !.measurements = Append(@, Measurement(t, fc))]
    /\ UNCHANGED <<manual_input, result, agg_out>>
    /\ UNCHANGED NotTransformer

\* the parser found the speed row of the summary table
LoadVma ==
    /\ Pending
    /\ "v" \notin DOMAIN xml_data.summary_data
    /\ \E v \in VmaValues \cup {-1} :
          xml_data' = [xml_data EXCEPT !.summary_data =
              [k \in {"v"} |->
                  [h \in {"Valeurs Maximales Absolues"} |->
                      IF v = -1 THEN None ELSE Sec(v)]]]
    /\ UNCHANGED <<manual_input, result, agg_out>>
    /\ UNCHANGED NotTransformer

\* the operator enters the heart rate of a threshold
EnterHr ==
    /\ Pending
    /\ \E sv \in {"sv1", "sv2"}, hr \in HrValues :
          /\ manual_input.stress_test_results.thresholds[sv].hr_bpm = None
          /\ manual_input' = [manual_input EXCEPT
                !.stress_test_results.thresholds[sv].hr_bpm = Sec(hr)]
    /\ UNCHANGED <<xml_data, result, agg_out>>
    /\ UNCHANGED NotTransformer

\* the parser appends one measurement record, its elapsed time in any order
\* and its heart rate a number or None
AppendBandRow ==
    /\ Pending
    /\ Len(xml_data.measurements) < MaxBandRows
    /\ \E t \in BandTimes, fc \in BandFCs :
          xml_data' = [xml_data EXCEPT !.measurements =
                          Append(@, [t_seconds |-> Sec(t), FC |-> fc])]
    /\ UNCHANGED <<manual_input, result, agg_out>>
    /\ UNCHANGED NotTransformer

\* the operator enters the maximal heart rate reached
EnterMaxHr ==
    /\ Pending
    /\ manual_input.stress_test_results.max_hr = None
    /\ \E hr \in MaxHrValues :
          manual_input' = [manual_input EXCEPT !.stress_test_results.max_hr = Sec(hr)]
    /\ UNCHANGED <<xml_data, result, agg_out>>
    /\ UNCHANGED NotTransformer

\* the parser found the V'O2 row of the summary table, with its values at the
\* two ventilatory thresholds (l/min)
LoadVo2Row ==
    /\ Pending
    /\ "V'O2" \notin DOMAIN xml_data.summary_data
    /\ \E vt1 \in SummaryVo2Values, vt2 \in SummaryVo2Values :
          xml_data' = [xml_data EXCEPT !.summary_data =
              [k \in {"V'O2"} |-> [h \in {"VT1", "VT2"} |-> IF h = "VT1" THEN vt1 ELSE vt2]]]
    /\ UNCHANGED <<manual_input, result, agg_out>>
    /\ UNCHANGED NotTransformer

\* the operator enters the VO2 of a threshold
EnterVo2 ==
    /\ Pending
    /\ \E sv \in {"sv1", "sv2"}, vo2 \in Vo2Values :
          /\ manual_input.stress_test_results.thresholds[sv].vo2_ml_kg_min = None
          /\ manual_input' = [manual_input EXCEPT
                !.stress_test_results.thresholds[sv].vo2_ml_kg_min = Sec(vo2)]
    /\ UNCHANGED <<xml_data, result, agg_out>>
    /\ UNCHANGED NotTransformer

\* the operator enters the pace of a threshold
EnterPace ==
    /\ Pending
    /\ \E sv \in {"sv1", "sv2"}, pace \in PaceValues :
          /\ manual_input.stress_test_results.thresholds[sv].pace_km_h = None
          /\ manual_input' = [manual_input EXCEPT
                !.stress_test_results.thresholds[sv].pace_km_h = Sec(pace)]
    /\ UNCHANGED <<xml_data, result, agg_out>>
    /\ UNCHANGED NotTransformer

\* the operator adds one lactate measure; a blank field is None or left out
AddLactateEntry ==
    /\ Pending
    /\ Len(manual_input.stress_test_results.lactate_profile) < MaxLactate
    /\ \E speed \in LactateValues, lactate \in LactateValues, bare \in BOOLEAN :
          /\ bare => lactate = None
          /\ manual_input' = [manual_input EXCEPT
                !.stress_test_results.lactate_profile =
                    Append(@, IF bare THEN [speed |-> speed]
                              ELSE [speed |-> speed, lactate_mmol_l |-> lactate])]
    /\ UNCHANGED <<xml_data, result, agg_out>>
    /\ UNCHANGED NotTransformer

\* the path leads to a key of d through dicts that are there
RECURSIVE HasPath(_, _)
HasPath(d, path) ==
    /\ d # None
    /\ path[1] \in DOMAIN d
    /\ Len(path) > 1 => HasPath(d[path[1]], Tail(path))

\* d without the key at the end of the path
RECURSIVE Without(_, _)
Without(d, path) ==
    IF Len(path) = 1 THEN [k \in DOMAIN d \ {path[1]} |-> d[k]]
    ELSE [k \in DOMAIN d |-> IF k = path[1] THEN Without(d[k], Tail(path)) ELSE d[k]]

\* d with None under the key at the end of the path
RECURSIVE Nulled(_, _)
Nulled(d, path) ==
    [k \in DOMAIN d |->
        IF k # path[1] THEN d[k]
        ELSE IF Len(path) = 1 THEN None
        ELSE Nulled(d[k], Tail(path))]

\* the sections of the manual input, by the keys that lead to them
SectionPaths ==
    {<<"identity">>, <<"body_composition">>, <<"professional_life">>,
     <<"equipment_and_tracking">>, <<"history_and_goals">>, <<"stress_test_results">>,
     <<"stress_test_results", "thresholds">>,
     <<"stress_test_results", "thresholds", "sv1">>,
     <<"stress_test_results", "thresholds", "sv2">>,
     <<"equipment_and_tracking", "watch_race_predictions">>}

\* some optional fields of the manual input
FieldPaths ==
    {<<"email">>, <<"observations">>, <<"body_composition", "weight_before_test">>,
     <<"stress_test_results", "max_hr">>, <<"stress_test_results", "lactate_profile">>}

\* the caller leaves an optional field or a whole section out of the manual input
OmitEntry ==
    /\ Pending
    /\ \E path \in SectionPaths \cup FieldPaths :
          /\ HasPath(manual_input, path)
          /\ manual_input' = Without(manual_input, path)
    /\ UNCHANGED <<xml_data, result, agg_out>>
    /\ UNCHANGED NotTransformer

\* the caller passes None for a section
NullSection ==
    /\ Pending
    /\ \E path \in SectionPaths :
          /\ HasPath(manual_input, path)
          /\ manual_input' = Nulled(manual_input, path)
    /\ UNCHANGED <<xml_data, result, agg_out>>
    /\ UNCHANGED NotTransformer

\* names the patient section of an export can hold
PatientNames == {<<>>, <<"R", "O", "E">>, <<"A", "n", "n">>}

\* the parser's filename fields of an export named for last and first
FilenameFields(last, first) ==
    LET fields == parse_filename(FileName(<<"T", "C", "P", "_", "_">>, last, first,
                                          <<"2", "0", "2", "4">>, <<"0", "5">>,
                                          <<"_", ".", "x", "m", "l">>))
    IN  [k \in DOMAIN fields |-> Str(fields[k])]

\* the parser read the names and the date of the test from the file name
LoadFilenameData ==
    /\ Pending
    /\ xml_data.filename_data = EmptyDict
    /\ \E last \in LastNames, first \in FirstNames :
          xml_data' = [xml_data EXCEPT !.filename_data = FilenameFields(last, first)]
    /\ UNCHANGED <<manual_input, result, agg_out>>
    /\ UNCHANGED NotTransformer

\* the parser found a name row in the patient section
LoadPatientName ==
    /\ Pending
    /\ \E key \in {"Nom", "Prénom"}, name \in PatientNames :
          /\ key \notin DOMAIN xml_data.patient_data
          /\ xml_data' = [xml_data EXCEPT !.patient_data = DictSet(@, key, Str(name))]
    /\ UNCHANGED <<manual_input, result, agg_out>>
    /\ UNCHANGED NotTransformer

\* weight cells of the biometric section, well formed and not
WeightTexts ==
    {<<>>, <<"7", "0", ",", "5", " ", "k", "g">>, <<"6", "8", "k", "g">>,
     <<"7", "0", ".", "5">>, <<"6", "8", ",", "2">>, <<" ", "7", " ", "k", "g", " ">>,
     <<"k", "g", "7">>, <<"a", "b", "c">>, <<"k", "g">>, <<"7", " ", "0", " ", "k", "g">>,
     <<"7", "0", ",", "5", " ", "K", "g">>, <<"1", "e", "1", "k", "g">>,
     <<"7", ",", "5", ",", "1", " ", "k", "g">>, <<"-">>}

\* weights the operator can enter, in kg
ManualWeights == {0, 68, 70}

\* the parser found the weight row of the biometric section
LoadWeight ==
    /\ Pending
    /\ "Poids" \notin DOMAIN xml_data.bio_data
    /\ \E text \in WeightTexts :
          xml_data' = [xml_data EXCEPT !.bio_data = DictSet(@, "Poids", Str(text))]
    /\ UNCHANGED <<manual_input, result, agg_out>>
    /\ UNCHANGED NotTransformer

\* the operator enters the weight before the test
EnterWeight ==
    /\ Pending
    /\ "weight_before_test" \in DOMAIN manual_input.body_composition
    /\ manual_input.body_composition.weight_before_test = None
    /\ \E kg \in ManualWeights :
          manual_input' = [manual_input EXCEPT
                !.body_composition.weight_before_test = Sec(kg)]
    /\ UNCHANGED <<xml_data, result, agg_out>>
    /\ UNCHANGED NotTransformer

\* the caller leaves the weight before the test out of the manual input
OmitWeight ==
    /\ Pending
    /\ HasPath(manual_input, <<"body_composition", "weight_before_test">>)
    /\ manual_input.body_composition.weight_before_test = None
    /\ manual_input' = Without(manual_input, <<"body_composition", "weight_before_test">>)
    /\ UNCHANGED <<xml_data, result, agg_out>>
    /\ UNCHANGED NotTransformer

\* one more record in the session, the test list or the data list
AddRecord ==
    /\ batch.run = NoResult
    /\ Len(batch.records) < MaxBatch
    /\ \E flaw \in Flaws, notify \in {"returns", "raises"} :
          batch' = [batch EXCEPT !.records = Append(@, [flaw |-> flaw, notify |-> notify])]
    /\ UNCHANGED NotBatch

\* SessionTab._export_all_matches() on a session with these matches
ExportAllMatches ==
    /\ batch.run = NoResult
    /\ batch.records # <<>>
    /\ batch' = [batch EXCEPT !.run = Returned(export_all_matches(batch.records))]
    /\ UNCHANGED NotBatch

\* TCPDataProcessor._export_all() on these tests, confirmed by the operator
ExportAll ==
    /\ batch.run = NoResult
    /\ ValidTests(batch.records, 1) # <<>>
    /\ batch' = [batch EXCEPT !.run = Returned(export_all(batch.records))]
    /\ UNCHANGED NotBatch

\* JsonExporter.export_batch(data_list, progress_callback) on transformed results
ExportBatch ==
    /\ batch.run = NoResult
    /\ \A i \in 1..Len(batch.records) : batch.records[i].flaw \in {"none", "write_error"}
    /\ batch' = [batch EXCEPT !.run = Returned(export_batch(batch.records))]
    /\ UNCHANGED NotBatch

\* DataTransformer.transform(xml_data, manual_input)
Transform ==
    /\ result = NoResult
    /\ result' = transform_call(xml_data, manual_input)
    /\ UNCHANGED <<xml_data, manual_input, agg_out>>
    /\ UNCHANGED NotTransformer

\* DataTransformer._aggregate_by_interval(measurements, GRAPH_INTERVAL_SECONDS)
Aggregate ==
    /\ agg_out = NoResult
    /\ agg_out' = Returned(aggregate_by_interval(xml_data.measurements,
                                                   GRAPH_INTERVAL_SECONDS))
    /\ UNCHANGED <<xml_data, manual_input, result>>
    /\ UNCHANGED NotTransformer

\* one more character of the raw cell text
TypeCell ==
    /\ converted = NoResult
    /\ Len(cell) < MaxCellLen
    /\ \E c \in CellChars : cell' = Append(cell, c)
    /\ UNCHANGED converted
    /\ UNCHANGED NotCoercion

\* TCPXmlParser._convert_value(cell)
ConvertValue ==
    /\ converted = NoResult
    /\ converted' = Returned(convert_value(cell))
    /\ UNCHANGED cell
    /\ UNCHANGED NotCoercion

NextCoerce == TypeCell \/ ConvertValue
SpecCoerce == Init /\ [][NextCoerce]_vars

\* a file name is chosen
NameFile ==
    /\ filename = <<>>
    /\ filename_data = NoResult
    /\ \E prefix \in NamePrefixes, last \in LastNames, first \in FirstNames,
          year \in Years, second \in Seconds, suffix \in NameSuffixes :
          filename' = FileName(prefix, last, first, year, second, suffix)
    /\ UNCHANGED filename_data
    /\ UNCHANGED NotFilename

\* TCPXmlParser._parse_filename(filename)
ParseFilename ==
    /\ filename_data = NoResult
    /\ filename_data' = Returned(parse_filename(filename))
    /\ UNCHANGED filename
    /\ UNCHANGED NotFilename

NextFilename == NameFile \/ ParseFilename
SpecFilename == Init /\ [][NextFilename]_vars

\* a workbook file is at hand, well-formed XML or not
OpenWorkbook ==
    /\ workbook = NoResult
    /\ \E wf \in BOOLEAN :
          workbook' = [ty |-> "workbook", wellformed |-> wf, worksheets |-> <<>>]
    /\ UNCHANGED <<parsed, parser>>
    /\ UNCHANGED NotParser

\* the workbook has one more worksheet, with or without a Table; the names
\* of the worksheets of a workbook are distinct
AddWorksheet ==
    /\ workbook.ty = "workbook"
    /\ workbook.wellformed
    /\ parsed = NoResult
    /\ \E name \in WorksheetNames, has_table \in BOOLEAN :
          /\ \A w \in 1..Len(workbook.worksheets) : workbook.worksheets[w].name # name
          /\ workbook' = [workbook EXCEPT !.worksheets =
                             Append(@, [name |-> name, has_table |-> has_table, rows |-> <<>>])]
    /\ UNCHANGED <<parsed, parser>>
    /\ UNCHANGED NotParser

\* the table of the last worksheet has one more block of rows
AppendRows ==
    /\ workbook.ty = "workbook"
    /\ parsed = NoResult
    /\ workbook.worksheets # <<>>
    /\ workbook.worksheets[Len(workbook.worksheets)].has_table
    /\ \E block \in RowBlocks :
          /\ TotalRows(workbook) + Len(block) <= MaxRows
          /\ workbook' = [workbook EXCEPT !.worksheets[Len(workbook.worksheets)].rows = @ \o block]
    /\ UNCHANGED <<parsed, parser>>
    /\ UNCHANGED NotParser

\* TCPXmlParser.parse_file(filepath): the file name is kept, the document is
\* returned or the error raised
ParseFile ==
    /\ workbook.ty = "workbook"
    /\ parsed = NoResult
    /\ \E name \in ParsedNames :
          /\ filename' = name
          /\ parser' = parse_file_call(parser, name, workbook).self
          /\ parsed' = parse_file_call(parser, name, workbook).outcome
    /\ UNCHANGED <<workbook, filename_data, transformer_vars, coercion_vars, batch_vars,
                   scan_vars, session_vars>>

\* a well-formed export whose worksheet MetasoftStudio holds these rows
Export(rows) ==
    [ty |-> "workbook", wellformed |-> TRUE,
     worksheets |-> <<[name |-> WORKSHEET_NAME, has_table |-> TRUE, rows |-> rows]>>]

\* files a session hands to one parser, good and bad
SampleWorkbooks ==
    {[ty |-> "workbook", wellformed |-> FALSE, worksheets |-> <<>>],
     [ty |-> "workbook", wellformed |-> TRUE, worksheets |-> <<>>],
     Export(AdminSection \o PatientSection),
     Export(BioSection \o SummarySection),
     Export(MeasurementSection)}

\* the next file of the session is at hand
LoadExport ==
    /\ workbook = NoResult
    /\ workbook' \in SampleWorkbooks
    /\ UNCHANGED <<parsed, parser>>
    /\ UNCHANGED NotParser

\* the caller is done with the file; the parser instance stays
NextFile ==
    /\ parsed # NoResult
    /\ workbook' = NoResult
    /\ parsed' = NoResult
    /\ filename' = <<>>
    /\ UNCHANGED <<parser, filename_data, transformer_vars, coercion_vars, batch_vars,
                   scan_vars, session_vars>>

\* the caller is done with the result; the next call takes new arguments
NextTest ==
    /\ result # NoResult
    /\ xml_data' = EmptyDocument
    /\ manual_input' = get_empty_profile
    /\ result' = NoResult
    /\ UNCHANGED agg_out
    /\ UNCHANGED NotTransformer

\* rows of a key/value section: its heading, a key with a spacer and a value, a
\* key and a value, a key whose value cell is empty, a row whose first cell is
\* empty, and the heading of the next section
AdminHeading == SubSeq(AdminSection, 1, 1)
NameRow == SubSeq(AdminSection, 2, 2)
FirstNameRow == SubSeq(PatientSection, 2, 2)
KeyOnlyRow == <<RowOf(<<<<"S", "e", "x", "e">>, <<>>>>)>>
NoKeyRow == <<RowOf(<<<<>>, <<"c", "m">>, <<"1", "8", "0">>>>)>>
TestHeading == SubSeq(TestSection, 1, 1)
MetaBlocks == {NameRow, FirstNameRow, KeyOnlyRow, NoKeyRow, TestHeading, BlankRow, ValueRow}

\* an export that opens with the heading of the administrative section
OpenMeta ==
    /\ workbook = NoResult
    /\ workbook' = Export(AdminHeading)
    /\ UNCHANGED <<parsed, parser>>
    /\ UNCHANGED NotParser

\* the table has one more row under the heading
AppendMetaRows ==
    /\ workbook.ty = "workbook"
    /\ parsed = NoResult
    /\ \E block \in MetaBlocks :
          /\ TotalRows(workbook) + Len(block) <= MaxRows
          /\ workbook' = [workbook EXCEPT !.worksheets[1].rows = @ \o block]
    /\ UNCHANGED <<parsed, parser>>
    /\ UNCHANGED NotParser

\* rows of a summary table: its heading with the header row, a data row, a data
\* row of two cells, a row of one cell, and the heading of the measurement stream
SummaryHead == SubSeq(SummarySection, 1, 2)
SummaryDataRow == SubSeq(SummarySection, 3, 3)
ShortRow == <<RowOf(<<<<"V", "E">>, <<"l", "/", "m", "i", "n">>>>)>>
LoneCellRow == <<RowOf(<<<<"M", "a", "x">>>>)>>
MeasurementHeading == SubSeq(MeasurementSection, 1, 1)
SummaryBlocks ==
    {SummaryDataRow, ValueRow, ShortRow, LoneCellRow, NoKeyRow, MeasurementHeading, BlankRow}

\* an export that opens with the heading and the header row of the summary table
OpenSummary ==
    /\ workbook = NoResult
    /\ workbook' = Export(SummaryHead)
    /\ UNCHANGED <<parsed, parser>>
    /\ UNCHANGED NotParser

\* the table has one more row under the header row
AppendSummaryRows ==
    /\ workbook.ty = "workbook"
    /\ parsed = NoResult
    /\ \E block \in SummaryBlocks :
          /\ TotalRows(workbook) + Len(block) <= MaxRows
          /\ workbook' = [workbook EXCEPT !.worksheets[1].rows = @ \o block]
    /\ UNCHANGED <<parsed, parser>>
    /\ UNCHANGED NotParser

\* a MetaLyzer export is at hand: a well-formed workbook whose one worksheet
\* MetasoftStudio has an empty table
OpenExport ==
    /\ workbook = NoResult
    /\ workbook' = [ty |-> "workbook", wellformed |-> TRUE,
                    worksheets |-> <<[name |-> WORKSHEET_NAME, has_table |-> TRUE, rows |-> <<>>]>>]
    /\ UNCHANGED <<parsed, parser>>
    /\ UNCHANGED NotParser

\* the table has one more block of the measurement stream
AppendMeasurementRows ==
    /\ workbook.ty = "workbook"
    /\ parsed = NoResult
    /\ \E block \in MeasurementBlocks :
          /\ TotalRows(workbook) + Len(block) <= MaxRows
          /\ workbook' = [workbook EXCEPT !.worksheets[1].rows = @ \o block]
    /\ UNCHANGED <<parsed, parser>>
    /\ UNCHANGED NotParser

\* time cells of a measurement stream: whole seconds, a decimal comma, a
\* decimal point with hours, text after the reading, a fourth field, a seconds
\* field with two separators, and a reading without seconds
ClockTexts ==
    {<<"0", ":", "0", "0", ":", "0", "5">>,
     <<"0", ":", "0", "1", ":", "1", "5", ",", "5", "0", "0">>,
     <<"1", ":", "0", "2", ":", "0", "3", ".", "2", "5">>,
     <<"0", ":", "0", "0", ":", "0", "5", "x">>,
     <<"0", ":", "0", "0", ":", "0", "5", ":", "0", "0">>,
     <<"0", ":", "0", "0", ":", "1", ",", "5", ",", "5">>,
     <<"1", "2", ":", "3", "4">>}
ClockRow(text) == <<RowOf(<<text, <<"E", "f", "f", "o", "r", "t">>, <<"1", "5", "0">>>>)>>

\* an export that opens with the heading, the header row and the units row of
\* the measurement stream
OpenStream ==
    /\ workbook = NoResult
    /\ workbook' = Export(MeasurementHead)
    /\ UNCHANGED <<parsed, parser>>
    /\ UNCHANGED NotParser

\* the stream has one more row
AppendClockRow ==
    /\ workbook.ty = "workbook"
    /\ parsed = NoResult
    /\ \E text \in ClockTexts :
          /\ TotalRows(workbook) + 1 <= MaxRows
          /\ workbook' = [workbook EXCEPT !.worksheets[1].rows = @ \o ClockRow(text)]
    /\ UNCHANGED <<parsed, parser>>
    /\ UNCHANGED NotParser

NextClock == OpenStream \/ AppendClockRow \/ ParseFile
SpecClock == Init /\ [][NextClock]_vars

\* single rows an extractor walks over: the headings of three sections, the
\* header rows of the summary table and of the measurement stream, a blank row
\* and a row of values that opens with a time
MaxScanRows == 4
ScanRows ==
    {AdminHeading, SubSeq(SummarySection, 1, 1), SubSeq(SummarySection, 2, 2),
     MeasurementHeading, SubSeq(MeasurementSection, 2, 2), BlankRow, SampleRow}

\* the table has one more row, as long as no extractor has been called on it
AppendScanRow ==
    /\ workbook.ty = "workbook"
    /\ scan.loop = "idle"
    /\ \E row \in ScanRows :
          /\ TotalRows(workbook) + 1 <= MaxScanRows
          /\ workbook' = [workbook EXCEPT !.worksheets[1].rows = @ \o row]
    /\ UNCHANGED scan
    /\ UNCHANGED NotScan

\* an extractor is called on the rows of the table
StartScan ==
    /\ workbook.ty = "workbook"
    /\ scan.loop = "idle"
    /\ \E extractor \in Extractors :
          scan' = start_scan(workbook.worksheets[1].rows, extractor)
    /\ UNCHANGED workbook
    /\ UNCHANGED NotScan

\* the extractor evaluates its loop condition and, when it holds, runs the
\* body of the loop once
ScanStep ==
    /\ scan.loop \in {"headers", "rows"}
    /\ scan' = scan_step(workbook.worksheets[1].rows, scan)
    /\ UNCHANGED workbook
    /\ UNCHANGED NotScan

NextScan == OpenExport \/ AppendScanRow \/ StartScan \/ ScanStep
SpecScan == Init /\ [][NextScan]_vars

\* an extractor is sequential code: once called it runs its iterations one
\* after the other until it returns
SpecScanLive == SpecScan /\ WF_vars(ScanStep)

\* profiles and XML files of a session: two names, with or without an email;
\* two source files, each imported once at most
MaxProfiles == 2
ProfileNames == {"A", "B"}
ProfileInputs == [name : ProfileNames, email : BOOLEAN]
XmlStems == {"x1", "x2"}

\* a handler other than an export has run
Handled(s) == [s EXCEPT !.last = NoExport]

\* a profile is created on the profile page
AddProfile ==
    /\ session.pos = 0
    /\ Cardinality(session.profiles) < MaxProfiles
    /\ \E profile_data \in ProfileInputs :
          session' = Handled(add_profile(session, profile_data))
    /\ UNCHANGED NotSession

\* ProfileTab._save_profile: the form of a profile is saved, under a new name
\* or the old one
SaveProfile ==
    /\ session.pos = 0
    /\ \E file_name \in ProfileFiles(session), profile_data \in ProfileInputs :
          session' = Handled(update_profile(session, file_name, profile_data))
    /\ UNCHANGED NotSession

\* ProfileTab._delete_profile
DeleteProfile ==
    /\ session.pos = 0
    /\ \E file_name \in ProfileFiles(session) :
          session' = Handled(delete_profile(session, file_name))
    /\ UNCHANGED NotSession

\* XmlMatchTab._import_xmls, one file
ImportXml ==
    /\ session.pos = 0
    /\ \E stem \in XmlStems :
          /\ File(stem, 0) \notin session.xmls
          /\ session' = Handled(import_xml(session, stem))
    /\ UNCHANGED NotSession

\* the Refresh button of the matching page
Refresh ==
    /\ session.pos = 0
    /\ session.listed # ProfileFiles(session)
    /\ session' = Handled(refresh(session))
    /\ UNCHANGED NotSession

\* XmlMatchTab._create_match on a listed profile and an XML file
CreateMatch ==
    /\ session.pos = 0
    /\ \E profile_filename \in session.listed, xml_filename \in session.xmls :
          session' = Handled(refresh(create_match(session, profile_filename, xml_filename)))
    /\ UNCHANGED NotSession

\* XmlMatchTab._remove_match on a match of the list
RemoveMatch ==
    /\ session.pos = 0
    /\ \E k \in 1..Len(session.matches) :
          session' = Handled(refresh(remove_match(session, session.matches[k].profile_name)))
    /\ UNCHANGED NotSession

\* XmlMatchTab._export_match on a match of the list
ExportMatch ==
    /\ session.pos = 0
    /\ \E k \in 1..Len(session.matches), fault \in ExportFaults :
          session' = export_match(session, k, fault)
    /\ UNCHANGED NotSession

\* XmlMatchTab._export_all_matches is started on a session with matches
StartExportAll ==
    /\ session.pos = 0
    /\ session.matches # <<>>
    /\ session' = [Handled(session) EXCEPT !.pos = 1]
    /\ UNCHANGED NotSession

\* one pass of the loop of _export_all_matches; no other handler runs before
\* the loop is through
ExportNextMatch ==
    /\ session.pos >= 1
    /\ \E fault \in ExportFaults :
          session' = [export_match(session, session.pos, fault)
                         EXCEPT !.pos = IF session.pos = Len(session.matches) THEN 0 ELSE @ + 1]
    /\ UNCHANGED NotSession

NextSession ==
    \/ AddProfile \/ SaveProfile \/ DeleteProfile \/ ImportXml \/ Refresh
    \/ CreateMatch \/ RemoveMatch \/ ExportMatch \/ StartExportAll \/ ExportNextMatch
SpecSession == Init /\ [][NextSession]_vars

NextMeasure == OpenExport \/ AppendMeasurementRows \/ ParseFile
SpecMeasure == Init /\ [][NextMeasure]_vars

NextParse == OpenWorkbook \/ AddWorksheet \/ AppendRows \/ ParseFile
SpecParse == Init /\ [][NextParse]_vars

NextSparse == OmitEntry \/ NullSection \/ Transform
SpecSparse == Init /\ [][NextSparse]_vars

NextName == LoadFilenameData \/ LoadPatientName \/ Transform
SpecName == Init /\ [][NextName]_vars

NextWeight == LoadWeight \/ EnterWeight \/ OmitWeight \/ Transform
SpecWeight == Init /\ [][NextWeight]_vars

NextBatch == AddRecord \/ ExportAllMatches \/ ExportAll \/ ExportBatch
SpecBatch == Init /\ [][NextBatch]_vars

NextReuse ==
    \/ LoadExport \/ ParseFile \/ NextFile
    \/ LoadWeight \/ EnterWeight \/ Transform \/ NextTest
SpecReuse == Init /\ [][NextReuse]_vars

NextMeta == OpenMeta \/ AppendMetaRows \/ ParseFile
SpecMeta == Init /\ [][NextMeta]_vars

NextSummary == OpenSummary \/ AppendSummaryRows \/ ParseFile
SpecSummary == Init /\ [][NextSummary]_vars

NextBands == AppendBandRow \/ EnterHr \/ Transform
SpecBands == Init /\ [][NextBands]_vars

NextPeak == AppendBandRow \/ EnterMaxHr \/ Transform
SpecPeak == Init /\ [][NextPeak]_vars

NextVo2 == LoadVo2Row \/ EnterVo2 \/ EnterHr \/ Transform
SpecVo2 == Init /\ [][NextVo2]_vars

NextZones == AppendZoneRow \/ EnterHr \/ Transform
SpecZones == Init /\ [][NextZones]_vars

NextAgg == AppendSample \/ Aggregate
SpecAgg == Init /\ [][NextAgg]_vars

NextSeuils == LoadVma \/ EnterPace \/ Transform
SpecSeuils == Init /\ [][NextSeuils]_vars

NextLactate == AddLactateEntry \/ Transform
SpecLactate == Init /\ [][NextLactate]_vars

----------------------------------------------------------------------------
(* Claims about the transformer *)

Thresholds == manual_input.stress_test_results.thresholds
Measurements == xml_data.measurements
TimesOf(ms) == [i \in 1..Len(ms) |-> ms[i]["t_seconds"].c]
Zones == result.v.graphiques.zones_seuils

\* round(mean, 2) of the FC of the measurements with index in I (I not empty)
MeanFC(I) ==
    LET idx == CHOOSE f \in [1..Cardinality(I) -> I] :
                   \A a, b \in 1..Cardinality(I) : a # b => f[a] # f[b]
        cs == [j \in 1..Cardinality(I) |-> Measurements[idx[j]]["FC"].c]
    IN  Num(RoundHalfEven(SumSeq(cs), Cardinality(I)))

\* the end-to-end scenario: rows at 0 s, 15 s, 30 s with heart rates 100, 150, 170,
\* the only threshold entered being sv1.hr_bpm = 150, and transform has returned
C1_Scenario ==
    /\ result.ty = "returned"
    /\ Measurements = <<Measurement(0, 100), Measurement(15, 150), Measurement(30, 170)>>
    /\ Thresholds.sv1.hr_bpm = Sec(150)
    /\ Thresholds.sv2.hr_bpm = None

C2_Scenario ==
    /\ agg_out.ty = "returned"
    /\ TimesOf(Measurements) = <<0, 5 * Scale, 10 * Scale, 14 * Scale, 16 * Scale, 20 * Scale>>

\* C2: samples at 0, 5, 10, 14, 16, 20 s with a 15 s bucket width aggregate into
\* exactly two records labelled 15 and 30; the first holds the mean of the samples
\* {0, 5, 10, 14}, the second the mean of {16, 20}, each rounded to 2 decimals.
C2_BucketBoundary ==
    C2_Scenario =>
        agg_out.v = << [t_seconds |-> Sec(15), FC |-> MeanFC({1, 2, 3, 4})],
                       [t_seconds |-> Sec(30), FC |-> MeanFC({5, 6})] >>

\* the scenario with heart rates that differ inside both buckets
C2_Witness ==
    /\ C2_Scenario
    /\ Len(agg_out.v) = 2
    /\ agg_out.v[1]["FC"].c % Scale # 0
    /\ agg_out.v[2]["FC"].c % Scale # 0

\* the aggregated record labelled L, as a set of zero or one record (sorted input)
BucketLabelled(L) == {agg_out.v[j] : j \in {j \in 1..Len(agg_out.v) :
                                              agg_out.v[j]["t_seconds"] = Sec(L)}}

\* indices of the samples with lo <= t < hi, and with lo < t <= hi (seconds)
SamplesLeftClosed(lo, hi) ==
    {i \in 1..Len(Measurements) :
        lo * Scale <= TimesOf(Measurements)[i] /\ TimesOf(Measurements)[i] < hi * Scale}
SamplesRightClosed(lo, hi) ==
    {i \in 1..Len(Measurements) :
        lo * Scale < TimesOf(Measurements)[i] /\ TimesOf(Measurements)[i] <= hi * Scale}

BoundarySamples(kmin) ==
    {i \in 1..Len(Measurements) :
        \E k \in kmin..2 : TimesOf(Measurements)[i] = k * GRAPH_INTERVAL_SECONDS * Scale}

C4_RoundedPercent ==
    result.ty = "returned" =>
        \A sv \in {"sv1", "sv2"} :
            LET pace == Thresholds[sv].pace_km_h
                vma == Get(Get(xml_data.summary_data, "v", EmptyDict),
                           "Valeurs Maximales Absolues", None)
                out == result.v.seuils[IF sv = "sv1" THEN "SV1" ELSE "SV2"]
            IN  /\ "pourcentage_vma" \in DOMAIN out
                /\ out.pourcentage_vma =
                      IF Truthy(pace) /\ Truthy(vma)
                      THEN Num(RoundHalfEven(pace.c * 100, vma.c) * Scale)
                      ELSE None

\* pace 12 with VMA 15 gives 80, and a threshold with no pace has the key with None
C4_Witness ==
    /\ result.ty = "returned"
    /\ Thresholds.sv1.pace_km_h = Sec(12)
    /\ result.v.seuils.VMA.valeur = Sec(15)
    /\ result.v.seuils.SV1.pourcentage_vma = Sec(80)
    /\ Thresholds.sv2.pace_km_h = None
    /\ result.v.seuils.SV2.pourcentage_vma = None

LactateProfile == manual_input.stress_test_results.lactate_profile

\* indices of the manual lactate entries with speed and lactate_mmol_l non-null
CompleteIdx ==
    {i \in 1..Len(LactateProfile) :
        /\ "speed" \in DOMAIN LactateProfile[i]
        /\ LactateProfile[i]["speed"] # None
        /\ "lactate_mmol_l" \in DOMAIN LactateProfile[i]
        /\ LactateProfile[i]["lactate_mmol_l"] # None}

\* C5: test_lactate.actif is true iff at least one manual lactate entry has both
\* speed and lactate_mmol_l non-null; mesures holds exactly the complete entries,
\* in input order, each as {vitesse, lactate} with the values unchanged; with no
\* complete pair actif is false and mesures is empty.
C5_LactateActivation ==
    result.ty = "returned" =>
        LET out == result.v.test_lactate
        IN  /\ out.actif = (CompleteIdx # {})
            /\ Len(out.mesures) = Cardinality(CompleteIdx)
            /\ \A j \in 1..Len(out.mesures) :
                  \E i \in CompleteIdx :
                      /\ Cardinality({h \in CompleteIdx : h <= i}) = j
                      /\ out.mesures[j] = [vitesse |-> LactateProfile[i]["speed"],
                                           lactate |-> LactateProfile[i]["lactate_mmol_l"]]
            /\ (CompleteIdx = {} => out.actif = FALSE /\ out.mesures = <<>>)

\* an incomplete entry between two complete ones, one of them with a speed of 0
C5_Witness ==
    /\ result.ty = "returned"
    /\ CompleteIdx = {1, 3}
    /\ LactateProfile[1]["speed"] = Num(0)
    /\ result.v.test_lactate.actif
    /\ Len(result.v.test_lactate.mesures) = 2

----------------------------------------------------------------------------
(* Value coercion *)

\* the rule "None for empty or "-"; else clean, then the integer if the
\* cleaned text parses as an integer, else the float if it parses as a float,
\* else the original string"
IntThenFloat(value) ==
    IF value = <<>> \/ value = <<"-">> THEN None
    ELSE LET value_clean == CleanValue(value)
         IN  IF IsIntText(value_clean) THEN PyInt(value_clean)
             ELSE IF IsFloatText(value_clean) THEN PyFloat(value_clean)
             ELSE Str(value)

\* C9: value coercion maps a raw cell to None when it is empty or "-";
\* otherwise, after removing spaces and replacing comma by dot, it returns the
\* integer if the text parses as an integer, else the float if it parses as a
\* float, else the original string unchanged.
C9_IntThenFloat ==
    converted.ty = "returned" => converted.v = IntThenFloat(cell)

\* "3,14" has been coerced, and came out as the float 3.14
C9_Witness ==
    /\ cell = <<"3", ",", "1", "4">>
    /\ converted = Returned([ty |-> "float", neg |-> FALSE, inf |-> FALSE, m |-> 314, e |-> -2])

\* C10: for every cell whose coercion is an integer or a float, coercing the
\* string rendering of the coerced value yields the coerced value again.
C10_Idempotent ==
    (converted.ty = "returned" /\ converted.v.ty \in {"int", "float"})
        => convert_value(PyStr(converted.v)) = converted.v

\* a cell written with a decimal comma and a space was coerced to a float whose
\* rendering coerces back to the same float
C10_Witness ==
    /\ converted.ty = "returned"
    /\ converted.v.ty = "float"
    /\ HasChar(cell, ",")
    /\ HasChar(cell, " ")
    /\ PyStr(converted.v) # cell
    /\ convert_value(PyStr(converted.v)) = converted.v

----------------------------------------------------------------------------
(* File name *)

\* the whole name, to its last character, is of the form
\* TCP__<LASTNAME>_<Firstname>_<YYYY>.<MM>.<DD>_<HH>.<MM>.<SS>_.xml
OfTheForm(name) == re_match(name).matched /\ re_match(name).end = Len(name) + 1

EmptyFields ==
    [last_name |-> <<>>, first_name |-> <<>>, date |-> <<>>, time |-> <<>>, datetime |-> <<>>]

\* the fields a name built from the given parts encodes
EncodedFields(last, first, year, second) ==
    [last_name |-> last, first_name |-> first,
     date |-> year \o <<"-", "0", "1", "-", "0", "2">>,
     time |-> <<"0", "3", ":", "0", "4", ":">> \o second,
     datetime |-> year \o <<"-", "0", "1", "-", "0", "2", "T", "0", "3", ":", "0", "4", ":">> \o second]

\* C8: for every file name of the form the parser returns exactly the encoded
\* last name, first name, date, time and datetime; for every file name that is
\* not of the form, one with extra characters after the pattern included, all
\* returned fields are empty strings; the parser never raises.
C8_RoundTrip ==
    filename_data.ty # "NoResult" =>
        /\ filename_data.ty = "returned"
        /\ \A prefix \in NamePrefixes, last \in LastNames, first \in FirstNames,
              year \in Years, second \in Seconds, suffix \in NameSuffixes :
              (filename = FileName(prefix, last, first, year, second, suffix) /\ OfTheForm(filename))
                  => filename_data.v = EncodedFields(last, first, year, second)
        /\ ~OfTheForm(filename) => filename_data.v = EmptyFields

\* a name of the form with an accented first name was parsed into its fields
C8_Witness ==
    /\ OfTheForm(filename)
    /\ filename_data.ty = "returned"
    /\ filename_data.v.last_name = <<"D", "O", "E">>
    /\ filename_data.v.first_name = <<"Z", "o", "é">>
    /\ filename_data.v.datetime = <<"2", "0", "2", "4", "-", "0", "1", "-", "0", "2", "T",
                                    "0", "3", ":", "0", "4", ":", "0", "5">>

----------------------------------------------------------------------------
(* Workbook parsing *)

\* a row grid is read: the workbook is well-formed and the worksheet found
\* has a table
HasGrid ==
    /\ workbook.ty = "workbook"
    /\ workbook.wellformed
    /\ FindWorksheet(workbook.worksheets) # 0
    /\ workbook.worksheets[FindWorksheet(workbook.worksheets)].has_table

GridRead == workbook.worksheets[FindWorksheet(workbook.worksheets)].rows

\* no row of the grid starts with a cell that holds the section's heading
Absent(section_name) ==
    \A i \in 1..Len(GridRead) :
        get_row_cells(GridRead[i]) = <<>> \/ ~Contains(section_name, get_row_cells(GridRead[i])[1])

SectionKeys ==
    {"filename_data", "patient_data", "bio_data", "test_metadata", "summary_data", "measurements"}

\* C6: for any row grid in which any subset of the administrative/patient,
\* biometric, test, summary-table and measurement sections is absent, parse
\* returns a document with all six section keys, with an empty mapping (an
\* empty sequence for measurements) for each absent section, and raises no
\* error.
C6_SectionAbsenceTolerance ==
    (parsed.ty # "NoResult" /\ HasGrid) =>
        /\ parsed.ty = "returned"
        /\ DOMAIN parsed.v = SectionKeys
        /\ (Absent(SECTION_ADMIN_DATA) /\ Absent(SECTION_PATIENT_DATA))
              => DOMAIN parsed.v.patient_data = {}
        /\ Absent(SECTION_BIO_DATA) => DOMAIN parsed.v.bio_data = {}
        /\ Absent(SECTION_TEST_DATA) => DOMAIN parsed.v.test_metadata = {}
        /\ Absent(SECTION_SUMMARY_TABLE) => DOMAIN parsed.v.summary_data = {}
        /\ Absent(SECTION_MEASUREMENT_DATA) => Len(parsed.v.measurements) = 0

\* a grid with the administrative and test sections and none of the other
\* three was parsed: the present sections are filled, the absent ones empty
C6_Witness ==
    /\ HasGrid
    /\ parsed.ty = "returned"
    /\ ~Absent(SECTION_ADMIN_DATA)
    /\ ~Absent(SECTION_TEST_DATA)
    /\ Absent(SECTION_BIO_DATA)
    /\ Absent(SECTION_SUMMARY_TABLE)
    /\ Absent(SECTION_MEASUREMENT_DATA)
    /\ DOMAIN parsed.v.patient_data # {}
    /\ DOMAIN parsed.v.test_metadata # {}
    /\ DOMAIN parsed.v.bio_data = {}
    /\ DOMAIN parsed.v.summary_data = {}
    /\ Len(parsed.v.measurements) = 0

\* C7: parsing a well-formed workbook that has no worksheet named
\* MetasoftStudio fails with a parse error and returns no document.
C7_NamedWorksheetOnly ==
    (/\ parsed.ty # "NoResult"
     /\ workbook.wellformed
     /\ \A w \in 1..Len(workbook.worksheets) : workbook.worksheets[w].name # WORKSHEET_NAME)
        => parsed.ty = "raised"

\* a well-formed workbook without any worksheet was parsed, and the parse
\* failed with the error that names the worksheet
C7_Witness ==
    /\ workbook.ty = "workbook"
    /\ workbook.wellformed
    /\ workbook.worksheets = <<>>
    /\ parsed = Raised("ValueError")

----------------------------------------------------------------------------
(* Measurement stream *)

T_SECONDS == <<"t", "_", "s", "e", "c", "o", "n", "d", "s">>

\* x <= y for two finite floats
FloatLeq(x, y) ==
    LET k == IF x.e < y.e THEN x.e ELSE y.e
        sx == (IF x.neg THEN -1 ELSE 1) * x.m * Pow10(x.e - k)
        sy == (IF y.neg THEN -1 ELSE 1) * y.m * Pow10(y.e - k)
    IN  sx <= sy

\* the text is a clock reading h:mm:ss or h:mm:ss,fff
IsClock(s) ==
    LET parts == SplitColon(s)
        sec == IF Len(parts) = 3 THEN parts[3] ELSE <<>>
    IN  /\ Len(parts) = 3
        /\ AllDigits(parts[1])
        /\ Len(parts[2]) = 2 /\ AllDigits(parts[2])
        /\ Len(sec) \in {2, 6}
        /\ AllDigits(SubSeq(sec, 1, 2))
        /\ Len(sec) = 6 => (sec[3] = "," /\ AllDigits(SubSeq(sec, 4, 6)))

\* the reading in milliseconds
ClockMillis(s) ==
    LET parts == SplitColon(s)
        sec == parts[3]
    IN  NatOf(parts[1]) * 3600000 + NatOf(parts[2]) * 60000 + NatOf(SubSeq(sec, 1, 2)) * 1000
           + (IF Len(sec) = 6 THEN NatOf(SubSeq(sec, 4, 6)) ELSE 0)

ParsedMeasurements == parsed.v.measurements

\* C11 as stated: for every measurements sequence returned by a successful
\* parse, the t_seconds of each record is greater than or equal to that of the
\* preceding record.
C11_Monotonic ==
    parsed.ty = "returned" =>
        \A i \in 1..(Len(ParsedMeasurements) - 1) :
            FloatLeq(ParsedMeasurements[i][T_SECONDS], ParsedMeasurements[i + 1][T_SECONDS])

\* C11 amended: the parser keeps the rows in file order without sorting them,
\* so t_seconds does not decrease from one record to the next whenever the
\* clock readings of the two rows (h:mm:ss or h:mm:ss,fff) do not decrease.
C11_MonotonicOnOrderedSource ==
    parsed.ty = "returned" =>
        \A i \in 1..(Len(ParsedMeasurements) - 1) :
            LET a == ParsedMeasurements[i]
                b == ParsedMeasurements[i + 1]
            IN  (/\ IsClock(a[<<"t">>].s) /\ IsClock(b[<<"t">>].s)
                 /\ ClockMillis(a[<<"t">>].s) <= ClockMillis(b[<<"t">>].s))
                    => FloatLeq(a[T_SECONDS], b[T_SECONDS])

\* two sample rows in clock order were parsed into two records, 5 s and 75.5 s
C11_Witness ==
    /\ parsed.ty = "returned"
    /\ Len(ParsedMeasurements) = 2
    /\ ClockMillis(ParsedMeasurements[1][<<"t">>].s) = 5000
    /\ ClockMillis(ParsedMeasurements[2][<<"t">>].s) = 75500
    /\ ParsedMeasurements[1][T_SECONDS] = [ty |-> "float", neg |-> FALSE, inf |-> FALSE, m |-> 5, e |-> 0]
    /\ ParsedMeasurements[2][T_SECONDS] = [ty |-> "float", neg |-> FALSE, inf |-> FALSE, m |-> 755, e |-> -1]

----------------------------------------------------------------------------
(* Missing optional data *)

\* C12: whatever optional field or whole section of the manual input is absent
\* or None, transform returns a result and raises nothing.
C12_NeverRaises == result # NoResult => result.ty = "returned"

\* two whole sections were left out, and transform returned the defaults for them
C12_Witness ==
    /\ "identity" \notin DOMAIN manual_input
    /\ "stress_test_results" \notin DOMAIN manual_input
    /\ result.ty = "returned"
    /\ result.v.patient_info.nom = EmptyStr
    /\ result.v.seuils.SV1.fc = None

----------------------------------------------------------------------------
(* Structural completeness *)

TopLevelKeys ==
    {"user_id", "athlete_name", "test_date", "test_type", "consentements", "seuils",
     "protocole", "test_lactate", "observations_lactate", "patient_info",
     "conseils_entrainements", "graphiques", "logos", "partenaires"}

SeuilKeys == {"vo2", "allure", "fc", "pourcentage_vma"}

PatientInfoKeys ==
    {"nom", "prenom", "date_naissance", "age", "sport_base", "specialty", "has_coach",
     "taille_cm", "poids_actuel", "poids_debut", "poids_final", "metier",
     "heures_travail", "marque_montre", "vo2_montre", "fc_repos", "fcmax_ever",
     "volume_cap", "prediction_5k", "prediction_10k", "prediction_semi",
     "prediction_marathon", "records_officiels", "trail_runner", "utmb_index",
     "objectifs", "seance_veille", "observations", "last_stage_speed", "annee_debut",
     "rsi_avant", "rsi_apres", "cmj_avant", "cmj_apres", "notes_privees",
     "altitude_vie_m", "spo2_avant", "spo2_apres", "lactatemie_repos"}

\* null, empty or false: what stands for a value that is missing
IsMissingValue(x) == x = None \/ x = EmptyStr \/ x = Bool(FALSE) \/ x = EmptyJump

\* C13: every TestResult has the same fixed top-level keys; seuils has SV1, SV2,
\* VO2_max and VMA; SV1 and SV2 have vo2, allure, fc and pourcentage_vma;
\* patient_info has its full key set; a value the inputs do not give is null,
\* empty or false under its key, and the key is never left out.
C13_StructurallyComplete ==
    result.ty = "returned" =>
        /\ DOMAIN result.v = TopLevelKeys
        /\ DOMAIN result.v.seuils = {"SV1", "SV2", "VO2_max", "VMA"}
        /\ DOMAIN result.v.seuils.SV1 = SeuilKeys
        /\ DOMAIN result.v.seuils.SV2 = SeuilKeys
        /\ DOMAIN result.v.patient_info = PatientInfoKeys
        /\ \A k \in PatientInfoKeys : IsMissingValue(result.v.patient_info[k])
        /\ \A k \in SeuilKeys : result.v.seuils.SV1[k] = None /\ result.v.seuils.SV2[k] = None

\* with the threshold, identity and body sections left out, transform returned a
\* result whose thresholds and patient fields are all there and empty
C13_Witness ==
    /\ result.ty = "returned"
    /\ "stress_test_results" \notin DOMAIN manual_input
    /\ "identity" \notin DOMAIN manual_input
    /\ "body_composition" \notin DOMAIN manual_input
    /\ result.v.seuils.SV2.pourcentage_vma = None
    /\ result.v.patient_info.poids_debut = None
    /\ result.v.patient_info.has_coach = Bool(FALSE)

----------------------------------------------------------------------------
(* Athlete name *)

\* the text without its leading and trailing whitespace
Trimmed(s) ==
    LET inked == {i \in 1..Len(s) : s[i] \notin WhitespaceChars}
    IN  IF inked = {} THEN <<>> ELSE SubSeq(s, SetMin(inked), SetMax(inked))

\* a name of the patient section when its row is there, else the file name's
NameFrom(key, fallback) ==
    IF key \in DOMAIN xml_data.patient_data THEN xml_data.patient_data[key].s
    ELSE IF fallback \in DOMAIN xml_data.filename_data
         THEN xml_data.filename_data[fallback].s
         ELSE <<>>

----------------------------------------------------------------------------
(* Body weight fallback *)

\* the text without a "kg" at its end
WithoutKgSuffix(s) ==
    LET t == Trimmed(s)
    IN  IF Len(t) >= 2 /\ SubSeq(t, Len(t) - 1, Len(t)) = <<"k", "g">>
        THEN SubSeq(t, 1, Len(t) - 2)
        ELSE t

\* the number a weight text stands for once its units are taken off by
\* without_units and its comma read as a point; None for a text that is no number
NumberOf(text) ==
    LET t == Trimmed(ReplaceChar(text, ",", "."))
    IN  IF IsFloatText(t) THEN PyFloat(t) ELSE None

ManualWeight == Get(Section(manual_input, "body_composition"), "weight_before_test", None)
XmlWeightText == Get(xml_data.bio_data, "Poids", EmptyStr).s

\* C15 (as stated): poids_debut is the manual weight_before_test whenever it is
\* present (non-null); otherwise the weight text of the biometric section with
\* its "kg" suffix stripped and its comma read as a point; None when that text
\* is absent or not a number.
C15_WeightFallback ==
    result.ty = "returned" =>
        result.v.patient_info.poids_debut =
            IF ManualWeight # None THEN ManualWeight
            ELSE NumberOf(WithoutKgSuffix(XmlWeightText))

\* C15 (amended): poids_debut is the manual weight_before_test whenever it is
\* present and not zero; otherwise (absent, None or 0) the weight text of the
\* biometric section with every "kg" removed and its comma read as a point;
\* None when that text is absent or not a number.  No input raises.
C15_WeightFallbackNonZero ==
    result # NoResult =>
        /\ result.ty = "returned"
        /\ result.v.patient_info.poids_debut =
              IF ManualWeight # None /\ ManualWeight # Num(0) THEN ManualWeight
              ELSE NumberOf(ReplaceAll(XmlWeightText, <<"k", "g">>, <<>>))

\* no manual weight and a biometric weight of "70,5 kg": poids_debut is 70.5
C15_Witness ==
    /\ result.ty = "returned"
    /\ ManualWeight = None
    /\ XmlWeightText = <<"7", "0", ",", "5", " ", "k", "g">>
    /\ result.v.patient_info.poids_debut =
          [ty |-> "float", neg |-> FALSE, inf |-> FALSE, m |-> 705, e |-> -1]

----------------------------------------------------------------------------
(* Batch isolation *)

\* the records of a sequence of indices, without repetition
Once(indices) == \A i, j \in 1..Len(indices) : indices[i] = indices[j] => i = j

BatchRun == batch.run.v

\* C16: in a batch export over N records every record is attempted exactly
\* once; a failing record is reported once, for that record only, and no later
\* record is skipped because of it; at the end the successes plus the reported
\* errors are N.
C16_BatchIsolation ==
    batch.run.ty = "returned" =>
        /\ BatchRun.attempted = BatchRun.over
        /\ Once(BatchRun.attempted)
        /\ Once(BatchRun.errors)
        /\ \A i \in 1..Len(BatchRun.over) :
              LET record == BatchRun.over[i]
              IN  (\E e \in 1..Len(BatchRun.errors) : BatchRun.errors[e] = record)
                      <=> batch.records[record].flaw # "none"
        /\ Len(BatchRun.success) + Len(BatchRun.errors) = Len(BatchRun.over)

\* a batch of three whose second record has no XML: the first and the third are
\* exported, the second is the one error
C16_Witness ==
    /\ batch.run.ty = "returned"
    /\ Len(batch.records) = 3
    /\ batch.records[2].flaw = "no_xml"
    /\ BatchRun.over = <<1, 2, 3>>
    /\ BatchRun.attempted = <<1, 2, 3>>
    /\ BatchRun.success = <<1, 3>>
    /\ BatchRun.errors = <<2>>

----------------------------------------------------------------------------
(* Per-call independence *)

\* what a parser made for this call alone returns for the file at hand
FreshParse == parse_file_call(FreshParser, filename, workbook).outcome

----------------------------------------------------------------------------
(* Key/value sections *)

\* the rows of the export at hand, and row i of them (from 0) as cell texts
GridRows == workbook.worksheets[1].rows
GridCells(i) == RowCells(GridRows, i)
IsBlank(i) == AllEmpty(GridCells(i))
NonEmptyCells(cells) == Cardinality({j \in 1..Len(cells) : cells[j] # <<>>})

\* the key/value pairs of rows lo..hi, a later row replacing an earlier one of
\* the same key; a row counts by its first cell being filled (rule "key") or
\* by two of its cells being filled (rule "two")
RECURSIVE PairsOf(_, _, _)
PairsOf(lo, hi, rule) ==
    IF hi < lo THEN EmptyDict
    ELSE LET cells == GridCells(hi)
             counts == IF rule = "key" THEN Len(cells) >= 2 /\ cells[1] # <<>>
                       ELSE NonEmptyCells(cells) >= 2
         IN  IF counts
             THEN DictSet(PairsOf(lo, hi - 1, rule), cells[1],
                          Str(IF Len(cells) > 2 THEN cells[3] ELSE cells[2]))
             ELSE PairsOf(lo, hi - 1, rule)

\* the first row at which the stated rule stops: blank, and followed by no row,
\* by a blank row or by a marker row; the number of rows when there is none
StatedStop ==
    LET stops == {i \in 1..(Len(GridRows) - 1) :
                     /\ IsBlank(i)
                     /\ \/ i + 1 = Len(GridRows)
                        \/ IsBlank(i + 1)
                        \/ AnnouncesSection(GridCells(i + 1))}
    IN  IF stops = {} THEN Len(GridRows) ELSE SetMin(stops)

\* the first row at which the loop breaks: blank and followed by a marker row
MarkerStop ==
    LET stops == {i \in 1..(Len(GridRows) - 2) :
                     IsBlank(i) /\ AnnouncesSection(GridCells(i + 1))}
    IN  IF stops = {} THEN Len(GridRows) ELSE SetMin(stops)

AdminParsed == parsed.ty = "returned" /\ workbook.ty = "workbook"

\* C18: key/value extraction stops at an entirely empty row exactly when the
\* row after it is absent, entirely empty or holds a marker word; the rows up
\* to that row are extracted, a lone blank row among them included, and no row
\* after it is.
C18_StopsAtBlankPair ==
    AdminParsed => parsed.v.patient_data = PairsOf(1, StatedStop - 1, "key")

\* a lone blank row between two key/value rows: the row after it is extracted
C18_Witness ==
    /\ AdminParsed
    /\ GridRows = AdminHeading \o NameRow \o BlankRow \o ValueRow
    /\ DOMAIN parsed.v.patient_data = {<<"N", "o", "m">>, <<"V", "'", "O", "2">>}

\* C19: a row of a key/value section is recorded if and only if it has at
\* least 2 non-empty cells, with cells[0] as key and cells[2] when a third cell
\* is present, else cells[1], as value; any other row is skipped and the
\* extraction goes on.
C19_TwoNonEmptyCells ==
    AdminParsed => parsed.v.patient_data = PairsOf(1, MarkerStop - 1, "two")

\* a two-cell row and a three-cell row were recorded, with the second and the
\* third cell as values, across a row of one cell that was skipped
C19_Witness ==
    /\ AdminParsed
    /\ GridRows = AdminHeading \o FirstNameRow \o TestHeading \o NameRow
    /\ parsed.v.patient_data =
          DictSet(DictSet(EmptyDict, <<"P", "r", "é", "n", "o", "m">>, Str(<<"J", "a", "n", "e">>)),
                  <<"N", "o", "m">>, Str(<<"D", "O", "E">>))

----------------------------------------------------------------------------
(* Summary table *)

\* the entry of a data row: each header, by position, to the coerced cell there
EntryOf(headers, cells) ==
    LET filled == {j \in 1..Len(headers) : j <= Len(cells)}
    IN  [h \in {headers[j] : j \in filled} |->
            convert_value(cells[SetMax({j \in filled : headers[j] = h})])]

\* the entries of rows lo..hi, a later row replacing an earlier one of the same
\* name; a row counts by its first cell being filled (rule "first"), and by
\* having a second cell as well (rule "cells")
RECURSIVE EntriesOf(_, _, _)
EntriesOf(lo, hi, rule) ==
    IF hi < lo THEN EmptyDict
    ELSE LET cells == GridCells(hi)
             counts == /\ cells # <<>>
                       /\ cells[1] # <<>>
                       /\ rule = "cells" => Len(cells) >= 2
         IN  IF counts
             THEN DictSet(EntriesOf(lo, hi - 1, rule), cells[1], EntryOf(GridCells(1), cells))
             ELSE EntriesOf(lo, hi - 1, rule)

\* the row holds a marker of what follows the table: the slope values or the
\* measurement stream
HoldsNextMarker(cells) ==
    \E j \in 1..Len(cells) :
        \/ Contains(<<"V", "a", "l", "e", "u", "r", " ", "d", "e", " ", "p", "e", "n", "t", "e">>, cells[j])
        \/ Contains(SECTION_MEASUREMENT_DATA, cells[j])

\* the first row at which the table ends: a blank row with a blank row right
\* after it, or a row that holds a marker of the next section
SummaryStop ==
    LET stops == {i \in 2..(Len(GridRows) - 1) :
                     \/ IsBlank(i) /\ i + 1 < Len(GridRows) /\ IsBlank(i + 1)
                     \/ HoldsNextMarker(GridCells(i))}
    IN  IF stops = {} THEN Len(GridRows) ELSE SetMin(stops)

SummaryParsed == parsed.ty = "returned" /\ workbook.ty = "workbook"

\* C20 (as stated): after the header row, every data row with a non-empty first
\* cell before the stopping point (a blank row right before a blank row, or a
\* marker row) yields one entry keyed by its first cell, mapping each header by
\* position to the coerced cell; no row at or after that point yields one.
C20_EveryNamedRow ==
    SummaryParsed => parsed.v.summary_data = EntriesOf(2, SummaryStop - 1, "first")

\* C20 (amended): as stated, for the data rows that have at least two cells and
\* a non-empty first cell; a row of a single cell yields no entry, and a row
\* shorter than the header row maps only the headers it has cells for.
C20_EveryNamedRowOfTwoCells ==
    SummaryParsed => parsed.v.summary_data = EntriesOf(2, SummaryStop - 1, "cells")

\* a data row, a lone blank row and a second data row: both rows are entries
\* with coerced cells
C20_Witness ==
    /\ SummaryParsed
    /\ GridRows = SummaryHead \o SummaryDataRow \o BlankRow \o ValueRow
    /\ DOMAIN parsed.v.summary_data = {<<"F", "C">>, <<"V", "'", "O", "2">>}
    /\ parsed.v.summary_data[<<"F", "C">>][<<"V", "T", "1">>] = [ty |-> "int", v |-> 150]
    /\ parsed.v.summary_data[<<"V", "'", "O", "2">>][<<"V", "T", "1">>] =
          [ty |-> "float", neg |-> FALSE, inf |-> FALSE, m |-> 314, e |-> -2]

----------------------------------------------------------------------------
(* End of the measurement stream *)

\* the export holds a measurement stream: the heading opens it and the header
\* row (first cell "t") is the row after it, the units row the next
HasStream ==
    /\ workbook.ty = "workbook"
    /\ parsed.ty = "returned"
    /\ Len(GridRows) >= Len(MeasurementHead)
    /\ SubSeq(GridRows, 1, Len(MeasurementHead)) = MeasurementHead

\* the first data row, counted from 0
FirstDataRow == Len(MeasurementHead)

\* the first cell of row i holds a reading of the time pattern
IsTimeRow(i) == GridCells(i) # <<>> /\ StartsWithTime(GridCells(i)[1])

\* the first row from the first data row on whose first cell fails the time
\* pattern or is empty; the number of rows when there is none
StreamEnd ==
    LET ends == {i \in FirstDataRow..(Len(GridRows) - 1) : ~IsTimeRow(i)}
    IN  IF ends = {} THEN Len(GridRows) ELSE SetMin(ends)

\* C21: after the header row and the discarded units row, records are
\* produced only for the leading run of rows whose first cell matches the time
\* pattern: the first row whose first cell fails the pattern or is empty ends
\* the stream, and no row after it produces a record.
C21_LeadingRunOnly ==
    HasStream =>
        /\ Len(ParsedMeasurements) = StreamEnd - FirstDataRow
        /\ \A n \in 1..Len(ParsedMeasurements) :
              ParsedMeasurements[n][<<"t">>] = Str(GridCells(FirstDataRow + n - 1)[1])

\* a row with an empty first cell right after the units row, then a sample
\* row: the sample row after the empty one has produced a record
C21_Witness ==
    /\ HasStream
    /\ GridRows = MeasurementHead \o BlankRow \o SampleRow
    /\ Len(ParsedMeasurements) = 1
    /\ ParsedMeasurements[1][<<"t">>] = Str(GridCells(4)[1])

----------------------------------------------------------------------------
(* Elapsed seconds *)

\* digits, or digits with a comma or a point and digits after it
IsSecondsField(s) ==
    LET seps == {i \in 1..Len(s) : s[i] \in {",", "."}}
    IN  \/ s # <<>> /\ AllDigits(s)
        \/ /\ Cardinality(seps) = 1
           /\ \E i \in seps :
                 /\ i > 1 /\ AllDigits(SubSeq(s, 1, i - 1))
                 /\ i < Len(s) /\ AllDigits(SubSeq(s, i + 1, Len(s)))

\* the text is hours:minutes:seconds
Convertible(s) ==
    LET parts == SplitColon(s)
    IN  /\ Len(parts) = 3
        /\ parts[1] # <<>> /\ AllDigits(parts[1])
        /\ parts[2] # <<>> /\ AllDigits(parts[2])
        /\ IsSecondsField(parts[3])

\* the seconds field in thousandths (fractions of up to three digits)
SecondsMillis(s) ==
    LET seps == {i \in 1..Len(s) : s[i] \in {",", "."}}
        i == IF seps = {} THEN Len(s) + 1 ELSE SetMin(seps)
        frac == SubSeq(s, i + 1, Len(s))
    IN  NatOf(SubSeq(s, 1, i - 1)) * 1000
           + (IF frac = <<>> THEN 0 ELSE NatOf(frac) * Pow10(3 - Len(frac)))

\* hours*3600 + minutes*60 + seconds, in thousandths
ElapsedMillis(s) ==
    LET parts == SplitColon(s)
    IN  NatOf(parts[1]) * 3600000 + NatOf(parts[2]) * 60000 + SecondsMillis(parts[3])

\* the float x is ms thousandths
IsMillis(x, ms) ==
    /\ x.ty = "float" /\ ~x.neg /\ ~x.inf
    /\ x.e >= -3
    /\ x.m * Pow10(x.e + 3) = ms

\* C22: every record of an accepted measurement row carries the original time
\* text (t) and an elapsed-seconds value equal to hours*3600 + minutes*60 +
\* seconds, the seconds field written with a comma or a point; a time text that
\* cannot be converted gives 0.0, and parsing raises nothing.
C22_ElapsedSeconds ==
    HasStream =>
        \A n \in 1..Len(ParsedMeasurements) :
            LET rec == ParsedMeasurements[n]
                text == GridCells(FirstDataRow + n - 1)[1]
            IN  /\ {<<"t">>, T_SECONDS} \subseteq DOMAIN rec
                /\ rec[<<"t">>] = Str(text)
                /\ IF Convertible(text)
                   THEN IsMillis(rec[T_SECONDS], ElapsedMillis(text))
                   ELSE rec[T_SECONDS] = ZeroFloat

\* a reading with hours and a decimal point, then one followed by text:
\* 3723.25 s and 0.0
C22_Witness ==
    /\ HasStream
    /\ Len(ParsedMeasurements) = 2
    /\ ParsedMeasurements[1][<<"t">>] = Str(<<"1", ":", "0", "2", ":", "0", "3", ".", "2", "5">>)
    /\ IsMillis(ParsedMeasurements[1][T_SECONDS], 3723250)
    /\ ParsedMeasurements[2][<<"t">>] = Str(<<"0", ":", "0", "0", ":", "0", "5", "x">>)
    /\ ParsedMeasurements[2][T_SECONDS] = ZeroFloat

----------------------------------------------------------------------------
(* Threshold zones *)

\* the aggregated buckets of the stream
Buckets == aggregate_by_interval(Measurements, GRAPH_INTERVAL_SECONDS)

\* floor(T * pct / 100) for a heart rate T
FloorPercent(T, pct) == (T.c * pct) \div (100 * Scale)

\* the buckets whose heart rate h satisfies floor(T*0.98) <= h <= floor(T*1.02)
BandBuckets(T) ==
    {i \in 1..Len(Buckets) :
        /\ "FC" \in DOMAIN Buckets[i]
        /\ FloorPercent(T, 98) * Scale <= Buckets[i]["FC"].c
        /\ Buckets[i]["FC"].c <= FloorPercent(T, 102) * Scale}

BucketTimes(I) == {Buckets[i]["t_seconds"].c : i \in I}

\* the zones of the result: none when the stream is empty and no graph is built
EmittedZones ==
    IF "zones_seuils" \in DOMAIN result.v.graphiques THEN Zones ELSE <<>>

\* the zones emitted under a name
ZonesNamed(name) == {z \in 1..Len(EmittedZones) : EmittedZones[z].nom = name}

\* the zone of a threshold is as stated for the target heart rate T
ZoneAsStated(name, T) ==
    IF T # None /\ BandBuckets(T) # {}
    THEN /\ Cardinality(ZonesNamed(name)) = 1
         /\ \A z \in ZonesNamed(name) :
               /\ EmittedZones[z].fc_min = Sec(FloorPercent(T, 98))
               /\ EmittedZones[z].fc_max = Sec(FloorPercent(T, 102))
               /\ EmittedZones[z].temps_debut_sec = Num(SetMin(BucketTimes(BandBuckets(T))))
               /\ EmittedZones[z].temps_fin_sec = Num(SetMax(BucketTimes(BandBuckets(T))))
    ELSE ZonesNamed(name) = {}

\* C23: for a threshold with target heart rate T the matching buckets are the
\* aggregated buckets whose heart rate h satisfies floor(T*0.98) <= h <=
\* floor(T*1.02); when at least one matches, exactly one zone is emitted for the
\* threshold, with fc_min = floor(T*0.98), fc_max = floor(T*1.02),
\* temps_debut_sec the earliest and temps_fin_sec the latest matching bucket
\* time; when none matches or T is absent, no zone is emitted for it.
C23_ThresholdZone ==
    result.ty = "returned" =>
        /\ ZoneAsStated("SV1", Thresholds.sv1.hr_bpm)
        /\ ZoneAsStated("SV2", Thresholds.sv2.hr_bpm)

\* SV1 at 150 bpm with buckets of 153 and 147 bpm on the bounds of its band,
\* SV2 at 170 bpm with no bucket in 166..173: one zone, SV1, from 15 s to 30 s
C23_Witness ==
    /\ result.ty = "returned"
    /\ Thresholds.sv1.hr_bpm = Sec(150)
    /\ Thresholds.sv2.hr_bpm = Sec(170)
    /\ Measurements = <<[t_seconds |-> Sec(15), FC |-> Sec(153)],
                        [t_seconds |-> Sec(5), FC |-> Sec(147)]>>
    /\ Len(Zones) = 1
    /\ Zones[1].nom = "SV1"
    /\ Zones[1].fc_min = Sec(147) /\ Zones[1].fc_max = Sec(153)
    /\ Zones[1].temps_debut_sec = Sec(15) /\ Zones[1].temps_fin_sec = Sec(30)

----------------------------------------------------------------------------
(* VO2max zone *)

MaxHr == manual_input.stress_test_results.max_hr

\* the buckets whose heart rate is at least 0.98 * M
PeakBuckets(M) ==
    {i \in 1..Len(Buckets) :
        "FC" \in DOMAIN Buckets[i] /\ Buckets[i]["FC"].c * 100 >= M.c * 98}

\* the source's elapsed times do not decrease
OrderedSource ==
    \A i \in 1..(Len(Measurements) - 1) :
        Measurements[i]["t_seconds"].c <= Measurements[i + 1]["t_seconds"].c

\* one VO2_max zone, a single time point at the given time, or none
PeakZoneAt(M, time) ==
    IF M # None /\ PeakBuckets(M) # {}
    THEN /\ Cardinality(ZonesNamed("VO2_max")) = 1
         /\ \A z \in ZonesNamed("VO2_max") :
               /\ EmittedZones[z].temps_sec = time
               /\ EmittedZones[z].fc = M
               /\ DOMAIN EmittedZones[z] \cap {"temps_debut_sec", "temps_fin_sec"} = {}
    ELSE ZonesNamed("VO2_max") = {}

\* C24 as stated: when the manual max heart rate M is present and some bucket
\* has a heart rate >= 0.98*M, exactly one VO2_max zone is emitted, a single
\* time point equal to the earliest time of such a bucket; when M is absent or
\* no bucket reaches 0.98*M, no VO2_max zone is emitted.
C24_PeakAtEarliest ==
    result.ty = "returned" =>
        PeakZoneAt(MaxHr, Num(SetMin(BucketTimes(PeakBuckets(MaxHr)))))

\* C24 amended: the zone is the time point of the first such bucket in the
\* order of the aggregated list, which is the order of the source rows; it is
\* the earliest one whenever the source's elapsed times do not decrease.
C24_PeakAtFirstInStream ==
    result.ty = "returned" =>
        /\ PeakZoneAt(MaxHr, Buckets[SetMin(PeakBuckets(MaxHr))]["t_seconds"])
        /\ OrderedSource =>
              PeakZoneAt(MaxHr, Num(SetMin(BucketTimes(PeakBuckets(MaxHr)))))

\* M = 170 with a bucket of 166 bpm (below 166.6) before one of 174 bpm: the
\* zone is the single point of the second bucket, at 45 s
C24_Witness ==
    /\ result.ty = "returned"
    /\ MaxHr = Sec(170)
    /\ Measurements = <<[t_seconds |-> Sec(15), FC |-> Sec(166)],
                        [t_seconds |-> Sec(30), FC |-> Sec(174)]>>
    /\ Len(Zones) = 1
    /\ Zones[1].nom = "VO2_max"
    /\ Zones[1].temps_sec = Sec(45)

----------------------------------------------------------------------------
(* Curves *)

\* the curves of the two graphs; none when the stream is empty
Curves ==
    IF "graphique_1" \in DOMAIN result.v.graphiques
    THEN result.v.graphiques.graphique_1.courbes \o result.v.graphiques.graphique_2.courbes
    ELSE <<>>

\* the fields that are drawn, with the names of their curves
CurveName ==
    [fld \in {"FC", "V'O2", "V'E", "BF", "RER"} |->
        CASE fld = "FC" -> "FC (bpm)"
          [] fld = "V'O2" -> "V'O2 (L/min)"
          [] fld = "V'E" -> "V'E (L/min)"
          [] fld = "BF" -> "BF (/min)"
          [] fld = "RER" -> "RER"]

CurvesOf(fld) == {c \in 1..Len(Curves) : Curves[c].nom = CurveName[fld]}

\* the samples of the stream that hold a value of the field
SamplesWith(fld) ==
    {i \in 1..Len(Measurements) :
        fld \in DOMAIN Measurements[i] /\ Measurements[i][fld] # None}

\* the bucket a sample falls in: its elapsed time over the bucket width
BucketOf(i) == Measurements[i]["t_seconds"].c \div (GRAPH_INTERVAL_SECONDS * Scale)

NonEmptyBuckets == {BucketOf(i) : i \in 1..Len(Measurements)}

\* one record per non-empty bucket, in strictly ascending time order, and no
\* time twice in a curve
OnePerBucketAscending ==
    /\ Len(Buckets) = Cardinality(NonEmptyBuckets)
    /\ \A i \in 1..(Len(Buckets) - 1) :
          Buckets[i]["t_seconds"].c < Buckets[i + 1]["t_seconds"].c
    /\ \A c \in 1..Len(Curves) :
          \A i, j \in 1..Len(Curves[c].temps_secondes) :
              i # j => Curves[c].temps_secondes[i] # Curves[c].temps_secondes[j]

\* a field without a non-null sample has no curve, a field with one has one
CurveIffData ==
    \A fld \in DOMAIN CurveName :
        Cardinality(CurvesOf(fld)) = (IF SamplesWith(fld) = {} THEN 0 ELSE 1)

\* C25 as stated: aggregation produces exactly one averaged record per
\* non-empty bucket, the records are in strictly ascending bucket-time order,
\* so that no bucket time appears twice in a curve's temps_secondes; a field
\* without a non-null sample anywhere in the stream produces no curve.
C25_OnePerBucketAscending ==
    result.ty = "returned" => OnePerBucketAscending /\ CurveIffData

\* C25 amended: the records follow the order of the source rows, a record
\* being closed whenever the bucket of the next row differs; they are one per
\* non-empty bucket and strictly ascending when the source's elapsed times do
\* not decrease.  The times of every curve are those of the records, and a
\* field without a non-null sample produces no curve.
C25_OnePerBucketOfOrderedSource ==
    result.ty = "returned" =>
        /\ OrderedSource => OnePerBucketAscending
        /\ \A c \in 1..Len(Curves) :
              Curves[c].temps_secondes = [i \in 1..Len(Buckets) |-> Buckets[i]["t_seconds"]]
        /\ CurveIffData

\* two rows of the bucket [0, 15), the second one with a heart rate: one
\* record, labelled 15, and one curve of one point
C25_Witness ==
    /\ result.ty = "returned"
    /\ Measurements = <<[t_seconds |-> Sec(0), FC |-> None],
                        [t_seconds |-> Sec(5), FC |-> Sec(147)]>>
    /\ Len(Buckets) = 1
    /\ Len(Curves) = 1
    /\ Curves[1].temps_secondes = <<Sec(15)>>
    /\ Curves[1].valeurs = <<Sec(147)>>

\* the records that hold a value of the field, in order
RecordsWith(fld) ==
    LET Has(b) == fld \in DOMAIN b
    IN  SelectSeq(Buckets, Has)

\* C26: a bucket without a valid (non-null) sample of a field contributes no
\* value of that field: the curve of the field holds a point for each bucket
\* that has a value and no point, hence no substituted default, for a bucket
\* that has none.
C26_NoGuessedValues ==
    result.ty = "returned" =>
        \A fld \in DOMAIN CurveName :
            \A c \in CurvesOf(fld) :
                /\ Curves[c].valeurs =
                       [i \in 1..Len(RecordsWith(fld)) |-> RecordsWith(fld)[i][fld]]
                /\ Curves[c].temps_secondes =
                       [i \in 1..Len(RecordsWith(fld)) |-> RecordsWith(fld)[i]["t_seconds"]]

\* a bucket whose only row has no heart rate, then a bucket of 147 bpm: the
\* heart-rate curve has a point of value 0 at 15 s
C26_Witness ==
    /\ result.ty = "returned"
    /\ Measurements = <<[t_seconds |-> Sec(0), FC |-> None],
                        [t_seconds |-> Sec(15), FC |-> Sec(147)]>>
    /\ "FC" \notin DOMAIN Buckets[1]
    /\ Len(Curves) = 1
    /\ Curves[1].temps_secondes = <<Sec(15), Sec(30)>>
    /\ Curves[1].valeurs = <<Num(0), Sec(147)>>

----------------------------------------------------------------------------
(* VO2 of the ventilatory thresholds *)

Seuils == result.v.seuils

\* C27: the vo2 of SV1 and of SV2 in the output is never taken from the XML:
\* it is the VO2 the operator entered for that threshold in the manual input
\* when one was entered, and null otherwise.
C27_ManualVo2 ==
    result.ty = "returned" =>
        /\ Seuils.SV1.vo2 = Thresholds.sv1.vo2_ml_kg_min
        /\ Seuils.SV2.vo2 = Thresholds.sv2.vo2_ml_kg_min

\* the operator entered 35 ml/min/kg for SV1 and nothing for SV2, the summary
\* table holds a V'O2 row: both vo2 of the output are null
C27_Witness ==
    /\ result.ty = "returned"
    /\ Thresholds.sv1.vo2_ml_kg_min = Sec(35)
    /\ Thresholds.sv2.vo2_ml_kg_min = None
    /\ "V'O2" \in DOMAIN xml_data.summary_data
    /\ xml_data.summary_data["V'O2"]["VT1"] = Num(250)
    /\ Seuils.SV1.vo2 = None
    /\ Seuils.SV2.vo2 = None

----------------------------------------------------------------------------
(* C28: extraction terminates.                                               *)

ScanGrid == workbook.worksheets[1].rows
Scanning == scan.loop \in {"headers", "rows"}

\* the rows read so far are read in ascending order, none twice
VisitedOnce ==
    \A a, b \in 1..Len(scan.visited) : a < b => scan.visited[a] < scan.visited[b]

\* an iteration either moves the scan index forward or ends the scan
Advances ==
    Scanning /\ scan' # scan => \/ scan'.i > scan.i
                                \/ scan'.loop = "done" /\ scan'.i = scan.i

\* a scan that has returned stands at the end of the grid, or at the row it
\* read last (the row that stopped it), or never entered a loop
EndsAtEndOrStop ==
    scan.loop = "done" =>
        \/ scan.i = Len(ScanGrid)
        \/ scan.visited # <<>> /\ scan.visited[Len(scan.visited)] = scan.i
        \/ scan.visited = <<>> /\ scan.i = -1

\* C28: on every finite row grid each extractor reads every row index at most
\* once, its scan index strictly increases on every iteration that does not
\* end the loop, it ends at the end of the grid or at a stop condition, and
\* once called it returns
C28_ExtractionTerminates ==
    /\ [](VisitedOnce /\ EndsAtEndOrStop)
    /\ [][Advances]_vars
    /\ (Scanning ~> scan.loop = "done")

\* the measurement extractor has read the header row and the units row, and
\* has returned at the row after them, which opens with no time
C28_Witness ==
    /\ scan.extractor = "measurement_data"
    /\ scan.loop = "done"
    /\ scan.visited = <<1, 2, 3>>
    /\ scan.i = 3
    /\ Len(ScanGrid) = 4

----------------------------------------------------------------------------
(* C29: the match list is one-to-one.                                        *)

MatchesOfProfile(profile_filename) ==
    {j \in 1..Len(session.matches) : session.matches[j].profile_name = profile_filename}
MatchesOfXml(xml_filename) ==
    {j \in 1..Len(session.matches) : session.matches[j].xml_filename = xml_filename}

\* no XML file name appears in more than one match
OneMatchPerXml ==
    \A j \in 1..Len(session.matches) :
        MatchesOfXml(session.matches[j].xml_filename) = {j}

\* C29: after any sequence of create_match, remove_match, delete_profile,
\* update_profile and mark_as_exported, no profile file name appears in more
\* than one match and no XML file name appears in more than one match
C29_OneToOne ==
    /\ \A j \in 1..Len(session.matches) :
           MatchesOfProfile(session.matches[j].profile_name) = {j}
    /\ OneMatchPerXml

\* two matches carry the name of one profile file
C29_Witness ==
    /\ Len(session.matches) = 2
    /\ session.matches[1].profile_name = session.matches[2].profile_name
    /\ session.matches[1].xml_filename # session.matches[2].xml_filename
    /\ session.matches[1].profile_name \in ProfileFiles(session)

----------------------------------------------------------------------------
(* C30: the exported flag follows a successful save.                         *)

\* the step is the export of a match, singly or within the export of all
IsExport == session'.last.k # 0

\* the flags that the step changes
FlagsChanged ==
    {j \in 1..Len(session.matches) : session'.matches[j].exported # session.matches[j].exported}

\* an export changes no flag but that of the match it exports, and that one
\* only to true and only when parse, transform and save have succeeded
FlagFollowsSave ==
    IsExport =>
        /\ Len(session'.matches) = Len(session.matches)
        /\ \A j \in FlagsChanged :
              /\ j = session'.last.k
              /\ session'.last.outcome = "ok"
              /\ session'.matches[j].exported

\* C30: when a match is exported, singly or within a batch, its exported flag
\* is set to true only after parse, transform and save have succeeded for
\* that match; when a step fails or the email is missing, the flag of that
\* match and of every other match is left unchanged
C30_FlagAfterSave == [][FlagFollowsSave]_vars

\* the second of two matches has been exported with success and is not
\* flagged, while the first one, of the same profile name, is
C30_Witness ==
    /\ Len(session.matches) = 2
    /\ session.last = [k |-> 2, outcome |-> "ok"]
    /\ ~session.matches[2].exported
    /\ session.matches[1].exported
    /\ session.matches[1].profile_name = session.matches[2].profile_name

====
